---------------------------- MODULE Spec2Model ----------------------------
(***************************************************************************)
(* A model of the mmorpgapi HTTP service: the route handlers of its        *)
(* successive index.js variants acting on one document store.  Every       *)
(* variant addresses the same paths of the store                           *)
(*   world_progress/global                       (the global record)       *)
(*   world_progress/global/world_progress/{id}   (the player roster)       *)
(*   world_progress/global/quests/{id}           (the quest list)          *)
(*   world_progress/global/enemies/{id}          (the enemy catalog)       *)
(* so the handlers of different variants are actions on the same state.    *)
(* Players own the subcollections inventory, equipment and battles.  The   *)
(* first variant alone uses a top-level collection "players".              *)
(*                                                                         *)
(* NUMBERS.  A JavaScript number is modelled in fixed point with one       *)
(* binary fractional digit: the integer h stands for the number h/2.  So   *)
(* J(1) = 2 is the number 1, and 3 is the number 1.5.  This keeps          *)
(* Math.trunc, Math.floor and Number.isInteger meaningful.                 *)
(*                                                                         *)
(* STRINGS that the code trims are sequences of one-character strings.     *)
(*                                                                         *)
(* DOCUMENTS are functions from field names to values; a collection is a   *)
(* function from the ids of the documents that exist to the documents.     *)
(***************************************************************************)
EXTENDS Integers, Sequences, FiniteSets, TLC

VARIABLES
    env,        \* process.env.ADMIN_SECRET as deployed (<<>> when unset)
    globalDoc,  \* collection holding at most the document "global"
    players,    \* the roster: document id -> player document
    quests,     \* the quest list: document id -> quest document
    enemies,    \* the enemy catalog: document id -> enemy document
    inventory,  \* <<player id, item id>> -> item document of the player's inventory
    equipment,  \* <<player id, slot>> -> document of the player's equipment
    battles,    \* <<player id, battle id>> -> record of the player's battles history
    rootPlayers,\* the top-level collection "players" of the first variant
    clock,      \* number of timestamps and generated ids handed out so far
    reqs,       \* requests in flight (handlers split at their awaits)
    last        \* the request handled last and the response it got

vars == <<env, globalDoc, players, quests, enemies, inventory, equipment, battles,
          rootPlayers, clock, reqs, last>>

\* what a handler that writes only the roster leaves alone
exceptPlayers == <<env, globalDoc, quests, enemies, inventory, equipment, battles,
                   rootPlayers, clock, reqs>>

\* the document store as a whole
store == <<globalDoc, players, quests, enemies, inventory, equipment, battles,
           rootPlayers>>

-----------------------------------------------------------------------------
(* Bounds of the model *)

\* request bodies carry numbers between -MaxRaw/2 and MaxRaw/2
MaxRaw == 3
\* xp additions are explored while the stored xp stays within -MaxXp..MaxXp
MaxXp == 2

-----------------------------------------------------------------------------
(* JavaScript values *)

\* the number n
J(n) == n * 2

\* Number.isInteger
IsInteger(h) == h % 2 = 0

\* Math.trunc: towards zero
Trunc(h) == IF h >= 0 THEN (h \div 2) * 2 ELSE 0 - (((0 - h) \div 2) * 2)

\* Math.floor
Floor(h) == (h \div 2) * 2

\* Math.floor(a / n) for a number a and a positive integer literal n
FloorDiv(h, n) == J(h \div (2 * n))

Max(a, b) == IF a >= b THEN a ELSE b

Min(a, b) == IF a <= b THEN a ELSE b

\* a value of a JSON body or of a document field, seen as what Number(v) gives:
\* a finite number, or NaN for undefined and for text that is no number
Undefined == [t |-> "undefined", h |-> 0]

Num(h) == [t |-> "number", h |-> h]

RawNums == {Undefined} \cup {Num(h) : h \in (0 - MaxRaw)..MaxRaw}

\* const toInt = (v, d = 0) => { const n = Number(v);
\*   return Number.isFinite(n) ? Math.trunc(n) : d; }
toInt(v, d) == IF v.t = "number" THEN Trunc(v.h) ELSE d

\* Number(v) || 0
NumberOr0(v) == IF v.t = "number" THEN v.h ELSE 0

\* String.prototype.trim on a sequence of characters
RECURSIVE TrimLeft(_)
TrimLeft(s) == IF s # <<>> /\ Head(s) = " " THEN TrimLeft(Tail(s)) ELSE s

RECURSIVE TrimRight(_)
TrimRight(s) ==
    IF s # <<>> /\ s[Len(s)] = " " THEN TrimRight(SubSeq(s, 1, Len(s) - 1)) ELSE s

trim(s) == TrimRight(TrimLeft(s))

-----------------------------------------------------------------------------
(* The document store: what the Firestore calls of the handlers do *)

NoDocs == [i \in {} |-> {}]

Exists(col, id) == id \in DOMAIN col

\* snap.data()?.f of a document: the field, or undefined
Field(doc, f) == IF f \in DOMAIN doc THEN Num(doc[f]) ELSE Undefined

\* the fields of data laid over those of doc
Merge(doc, data) ==
    [f \in DOMAIN doc \cup DOMAIN data |-> IF f \in DOMAIN data THEN data[f] ELSE doc[f]]

\* ref.set(data): the document becomes data
Set(col, id, data) ==
    [i \in DOMAIN col \cup {id} |-> IF i = id THEN data ELSE col[i]]

\* ref.set(data, { merge: true }): creates the document, or overwrites the
\* fields that data names and keeps the others
SetMerge(col, id, data) ==
    Set(col, id, IF Exists(col, id) THEN Merge(col[id], data) ELSE data)

\* ref.update({ f: FieldValue.increment(d) }) on a document that exists
\* (update of a missing document is rejected with NOT_FOUND): the field grows
\* by d, and a missing field becomes d
Increment(col, id, f, d) ==
    Set(col, id, Merge(col[id], [g \in {f} |->
        (IF f \in DOMAIN col[id] THEN col[id][f] ELSE 0) + d]))

\* ref.delete()
Delete(col, id) == [i \in DOMAIN col \ {id} |-> col[i]]

-----------------------------------------------------------------------------
(* Responses *)

Response(op, name, status, err) ==
    [op |-> op, name |-> name, status |-> status, err |-> err]

-----------------------------------------------------------------------------
(* Initial state: an empty store, no request served yet *)

Envs == {<<>>, <<"s">>}

Headers == {<<>>, <<"s">>, <<"x">>}

RawNames == {<<>>, <<" ">>, <<"a">>}

Init ==
    /\ env \in Envs
    /\ globalDoc = NoDocs
    /\ players = NoDocs
    /\ quests = NoDocs
    /\ enemies = NoDocs
    /\ inventory = NoDocs
    /\ equipment = NoDocs
    /\ battles = NoDocs
    /\ rootPlayers = NoDocs
    /\ clock = 0
    /\ reqs = <<>>
    /\ last = Response("none", <<>>, 0, "")

-----------------------------------------------------------------------------
(* index.js, second variant (lines 35-293) *)

\* PUT /players/:name {level?, xp?}
PutPlayersName(rawName, rawLevel, rawXp) ==
    LET name == trim(rawName)
        level == toInt(rawLevel, J(1))
        xp == toInt(rawXp, J(0))
    IN  /\ IF name = <<>>
           THEN /\ last' = Response("PUT /players/:name", rawName, 400, "name_required")
                /\ UNCHANGED players
           ELSE /\ players' = SetMerge(players, name,
                                  [name |-> name, level |-> level, xp |-> xp])
                /\ last' = Response("PUT /players/:name", rawName, 200, "")
        /\ UNCHANGED exceptPlayers

\* const requireAdmin = (req, res, next) => { ... }  (index.js:52): the status
\* it answers, or 0 when it calls next()
ADMIN_SECRET == env

\* a requireAdmin that lets a request without the header through
requireAdminAbsentPasses(key) ==
    IF ADMIN_SECRET = <<>> THEN 0
    ELSE IF key = ADMIN_SECRET \/ key = <<>> THEN 0
    ELSE 403

requireAdmin(key) ==
    IF ADMIN_SECRET = <<>> THEN 0
    ELSE IF key = ADMIN_SECRET THEN 0
    ELSE 403

\* POST /players/addxp {name, xp}   "Sumar XP rapido"
PostPlayersAddxp(rawName, rawXp) ==
    LET name == trim(rawName)
        delta == toInt(rawXp, J(0))
        \* asegúralo existente
        ensured == SetMerge(players, name,
                       [name |-> name, level |-> J(1), xp |-> J(0)])
    IN  /\ IF name = <<>>
           THEN /\ last' = Response("POST /players/addxp", rawName, 400, "name_required")
                /\ UNCHANGED players
           ELSE /\ players' = Increment(ensured, name, "xp", delta)
                /\ last' = Response("POST /players/addxp", rawName, 200, "")
        /\ UNCHANGED exceptPlayers

-----------------------------------------------------------------------------
(* index.js, fourth variant (lines 353-642) *)

\* POST /players/addxp {name, xp}: the name is used as sent, untrimmed
PostPlayersAddxpB(rawName, rawXp) ==
    LET name == rawName
        ensured == SetMerge(players, name, [name |-> name])
    IN  /\ IF name = <<>>
           THEN /\ last' = Response("POST /players/addxp B", rawName, 400, "name_required")
                /\ UNCHANGED players
           ELSE /\ Max(Increment(ensured, name, "xp", toInt(rawXp, J(0)))[name].xp,
                       0 - Increment(ensured, name, "xp", toInt(rawXp, J(0)))[name].xp)
                     <= J(MaxXp)
                /\ players' = Increment(ensured, name, "xp", toInt(rawXp, J(0)))
                /\ last' = Response("POST /players/addxp B", rawName, 200, "")
        /\ UNCHANGED exceptPlayers

-----------------------------------------------------------------------------
(* part_001 *)

\* const ADMIN_SECRET = (process.env.ADMIN_SECRET || "").trim();
ADMIN_SECRET_001 == trim(env)

\* a guard that lets every request through when no secret is set
requireSecretFailsOpen(header) ==
    IF ADMIN_SECRET_001 = <<>> THEN 0
    ELSE IF trim(header) # ADMIN_SECRET_001 THEN 403
    ELSE 0

\* function requireSecret(req, res, next): the status it answers, or 0 when it
\* calls next()
requireSecret(header) ==
    IF ADMIN_SECRET_001 = <<>> THEN 500
    ELSE IF trim(header) # ADMIN_SECRET_001 THEN 403
    ELSE 0

requireSecretError(header) ==
    IF requireSecret(header) = 500 THEN "admin_secret_not_set" ELSE "forbidden"

\* POST /players/addxp, its three store calls:
\*   await ref.set({ name }, { merge: true });
AddxpEnsure(col, name) == SetMerge(col, name, [name |-> name])

\*   const snap = await ref.get();
\*   const curr = snap.exists && snap.data()?.xp ? Number(snap.data().xp) : 0;
AddxpRead(col, name) ==
    IF Exists(col, name) /\ "xp" \in DOMAIN col[name] /\ col[name].xp # 0
    THEN col[name].xp
    ELSE 0

\*   await ref.set({ xp: nuevoXP }, { merge: true });
AddxpWrite(col, name, nuevoXP) == SetMerge(col, name, [xp |-> nuevoXP])

\* POST /players/addxp {name, xp} (req. clave), served with no other request
\* in flight
PostPlayersAddxp001(header, rawName, rawXp) ==
    LET name == rawName
        delta == NumberOr0(rawXp)
        ensured == AddxpEnsure(players, name)
        nuevoXP == AddxpRead(ensured, name) + delta
    IN  /\ IF requireSecret(header) # 0
           THEN /\ last' = Response("POST /players/addxp 001", rawName,
                                    requireSecret(header), requireSecretError(header))
                /\ UNCHANGED players
           ELSE IF name = <<>>
           THEN /\ last' = Response("POST /players/addxp 001", rawName, 400, "name requerido")
                /\ UNCHANGED players
           ELSE /\ Max(nuevoXP, 0 - nuevoXP) <= J(MaxXp)
                /\ players' = AddxpWrite(ensured, name, nuevoXP)
                /\ last' = Response("POST /players/addxp 001", rawName, 200, "")
        /\ UNCHANGED exceptPlayers

-----------------------------------------------------------------------------
(* part_005, second variant (lines 176-536) *)

ADMIN_SECRET_005 == env

requireAdmin005(key) ==
    IF ADMIN_SECRET_005 = <<>> THEN 0
    ELSE IF key = ADMIN_SECRET_005 THEN 0
    ELSE 403

\* the six enemies of POST /seed/enemies
defaults ==
    [i \in {<<"slime">>, <<"wolf">>, <<"goblin">>, <<"ogre">>, <<"mage">>, <<"dragon">>} |->
        CASE i = <<"slime">>  -> [name |-> "Slime",       power |-> J(1),  rewardXp |-> J(10)]
          [] i = <<"wolf">>   -> [name |-> "Lobo",        power |-> J(5),  rewardXp |-> J(25)]
          [] i = <<"goblin">> -> [name |-> "Goblin",      power |-> J(10), rewardXp |-> J(50)]
          [] i = <<"ogre">>   -> [name |-> "Ogro",        power |-> J(20), rewardXp |-> J(120)]
          [] i = <<"mage">>   -> [name |-> "Mago oscuro", power |-> J(35), rewardXp |-> J(220)]
          [] i = <<"dragon">> -> [name |-> "Dragón",      power |-> J(60), rewardXp |-> J(500)]]

\* POST /seed/enemies (admin): one batch of merge-writes
PostSeedEnemies(key) ==
    /\ IF requireAdmin005(key) # 0
       THEN /\ last' = Response("POST /seed/enemies", <<>>, 403, "forbidden")
            /\ UNCHANGED enemies
       ELSE /\ enemies' = [i \in DOMAIN enemies \cup DOMAIN defaults |->
                              IF i \in DOMAIN defaults
                              THEN (IF Exists(enemies, i)
                                    THEN Merge(enemies[i], defaults[i])
                                    ELSE defaults[i])
                              ELSE enemies[i]]
            /\ last' = Response("POST /seed/enemies", <<>>, 200, "")
    /\ UNCHANGED <<env, globalDoc, players, quests, inventory, equipment, battles, rootPlayers, clock, reqs>>

\* const base = 0.35 + (lvl / (lvl + power + 1)); const roll = Math.random();
\* const win = roll < base;   with roll anywhere in [0, 1).
\* A win can happen exactly when base > 0, a defeat exactly when not base >= 1.
WinPossible(lvl, power) ==
    LET den == lvl + power + J(1)
    IN  IF den > 0 THEN 100 * lvl > (0 - 35) * den
        ELSE IF den < 0 THEN 100 * lvl < (0 - 35) * den
        ELSE lvl > 0

LosePossible(lvl, power) ==
    LET den == lvl + power + J(1)
    IN  IF den > 0 THEN 100 * lvl < 65 * den
        ELSE IF den < 0 THEN 100 * lvl > 65 * den
        ELSE lvl <= 0

\* POST /battle { name, enemyId }
PostBattle(rawName, rawEnemyId, win) ==
    LET name == trim(rawName)
        enemyId == trim(rawEnemyId)
        \* lee jugador
        ensured == SetMerge(players, name,
                       [name |-> name, level |-> J(1), xp |-> J(0)])
        player == ensured[name]
        enemy == enemies[enemyId]
        lvl == toInt(Field(player, "level"), J(1))
        power == toInt(Field(enemy, "power"), J(1))
        xpGain == IF win THEN toInt(Field(enemy, "rewardXp"), J(10)) ELSE J(2)
        newXp == toInt(Field(player, "xp"), J(0)) + xpGain
        lvlUps == FloorDiv(newXp, 100)
        newLevel == Max(J(1), lvlUps + J(1))
    IN  /\ IF name = <<>> \/ enemyId = <<>>
           THEN /\ last' = Response("POST /battle", rawName, 400, "name_and_enemy_required")
                /\ UNCHANGED players
           ELSE IF ~Exists(enemies, enemyId)
           THEN /\ players' = ensured
                /\ last' = Response("POST /battle", rawName, 404, "enemy_not_found")
           ELSE /\ IF win THEN WinPossible(lvl, power) ELSE LosePossible(lvl, power)
                /\ players' = SetMerge(ensured, name, [xp |-> newXp, level |-> newLevel])
                /\ last' = Response("POST /battle", rawName, 200, "")
        /\ UNCHANGED exceptPlayers

-----------------------------------------------------------------------------
(* The roster under requests served one after the other *)

EnemyIds == {<<>>, <<"slime">>, <<" ", "ogre">>, <<"nope">>}

Next ==
    \/ \E n \in RawNames, l \in RawNums, x \in RawNums : PutPlayersName(n, l, x)
    \/ \E n \in RawNames, x \in RawNums : PostPlayersAddxp(n, x)
    \/ \E n \in RawNames, x \in RawNums : PostPlayersAddxpB(n, x)
    \/ \E h \in Headers, n \in RawNames, x \in RawNums : PostPlayersAddxp001(h, n, x)
    \/ \E h \in Headers : PostSeedEnemies(h)
    \/ \E n \in RawNames, e \in EnemyIds, w \in BOOLEAN : PostBattle(n, e, w)

Spec == Init /\ [][Next]_vars

-----------------------------------------------------------------------------
(* Claims about the roster *)

HasXpAndLevel(id) ==
    Exists(players, id) /\ "xp" \in DOMAIN players[id] /\ "level" \in DOMAIN players[id]

\* C1: in every reachable state of the roster, the xp of every stored player
\* is a non-negative integer.
C1_XpNonNegativeInteger ==
    \A id \in DOMAIN players :
        "xp" \in DOMAIN players[id] =>
            players[id].xp >= 0 /\ IsInteger(players[id].xp)

\* C2: every POST /battle (won or lost) that is answered 200 for a player that
\* already has a level leaves the stored level at least what it was.
C2_BattleKeepsLevel ==
    [][\A n \in RawNames, e \in EnemyIds, w \in BOOLEAN :
          (/\ PostBattle(n, e, w)
           /\ HasXpAndLevel(trim(n))
           /\ last'.status = 200)
          => players'[trim(n)].level >= players[trim(n)].level]_vars

\* C3: a successful POST /players/addxp with an integer delta d, for a player
\* that exists with xp = x and level = l, stores xp = x + d and keeps level l
\* (in the variants of index.js:209 and of index.js:499).
C3_AddxpAddsToStoredXp ==
    [][\A n \in RawNames, x \in RawNums :
          /\ (/\ PostPlayersAddxp(n, x)
              /\ x.t = "number" /\ IsInteger(x.h)
              /\ HasXpAndLevel(trim(n))
              /\ last'.status = 200)
             => /\ players'[trim(n)].xp = players[trim(n)].xp + x.h
                /\ players'[trim(n)].level = players[trim(n)].level
          /\ (/\ PostPlayersAddxpB(n, x)
              /\ x.t = "number" /\ IsInteger(x.h)
              /\ HasXpAndLevel(n)
              /\ last'.status = 200)
             => /\ players'[n].xp = players[n].xp + x.h
                /\ players'[n].level = players[n].level]_vars

-----------------------------------------------------------------------------
(* part_001: POST /players/addxp with several requests in flight.  The        *)
(* handler awaits three store calls one after the other, and the event loop   *)
(* may run another request's step between any two of them.                    *)

\* requests that may be in flight together
MaxReq == 2

\* PUT /players/:name {level?, xp?} (req. clave)
PutPlayersName001(header, rawName, rawLevel, rawXp) ==
    LET name == trim(rawName)
        level == toInt(rawLevel, J(1))
        xp == toInt(rawXp, J(0))
    IN  /\ IF requireSecret(header) # 0
           THEN /\ last' = Response("PUT /players/:name 001", rawName,
                                    requireSecret(header), requireSecretError(header))
                /\ UNCHANGED players
           ELSE IF name = <<>>
           THEN /\ last' = Response("PUT /players/:name 001", rawName, 400, "name_required")
                /\ UNCHANGED players
           ELSE /\ players' = SetMerge(players, name,
                                  [name |-> name, level |-> level, xp |-> xp])
                /\ last' = Response("PUT /players/:name 001", rawName, 200, "")
        /\ UNCHANGED exceptPlayers

\* the xp stored for a player when a burst of requests for it starts (kept
\* with each request of the burst, for the statement of the claim only)
BaseXp(name) ==
    IF \E i \in 1..Len(reqs) : reqs[i].name = name
    THEN reqs[CHOOSE i \in 1..Len(reqs) : reqs[i].name = name].base
    ELSE IF Exists(players, name) /\ "xp" \in DOMAIN players[name]
    THEN players[name].xp
    ELSE 0

\* the request arrives: requireSecret, then
\*   const { name, xp = 0 } = req.body || {};
\*   if (!name) return res.status(400).json({ error: "name requerido" });
\*   const delta = Number(xp) || 0;
AddxpBegin(header, rawName, rawXp) ==
    /\ Len(reqs) < MaxReq
    /\ IF requireSecret(header) # 0
       THEN /\ last' = Response("POST /players/addxp 001", rawName,
                                requireSecret(header), requireSecretError(header))
            /\ UNCHANGED reqs
       ELSE IF rawName = <<>>
       THEN /\ last' = Response("POST /players/addxp 001", rawName, 400, "name requerido")
            /\ UNCHANGED reqs
       ELSE /\ reqs' = Append(reqs, [pc |-> "ensure", name |-> rawName,
                                     delta |-> NumberOr0(rawXp), curr |-> 0,
                                     base |-> BaseXp(rawName)])
            /\ UNCHANGED last
    /\ UNCHANGED <<env, store, clock>>

\*   await ref.set({ name }, { merge: true });
AddxpStepEnsure(i) ==
    /\ reqs[i].pc = "ensure"
    /\ players' = AddxpEnsure(players, reqs[i].name)
    /\ reqs' = [reqs EXCEPT ![i].pc = "read"]
    /\ UNCHANGED <<env, globalDoc, quests, enemies, inventory, equipment, battles, rootPlayers,
                   clock, last>>

\*   const snap = await ref.get();   const curr = ...
AddxpStepRead(i) ==
    /\ reqs[i].pc = "read"
    /\ reqs' = [reqs EXCEPT ![i].pc = "write",
                            ![i].curr = AddxpRead(players, reqs[i].name)]
    /\ UNCHANGED <<env, store, clock, last>>

\*   const nuevoXP = curr + delta;
\*   await ref.set({ xp: nuevoXP }, { merge: true });
\*   res.json({ ok: true, name, xp: nuevoXP });
AddxpStepWrite(i) ==
    /\ reqs[i].pc = "write"
    /\ players' = AddxpWrite(players, reqs[i].name, reqs[i].curr + reqs[i].delta)
    /\ reqs' = [reqs EXCEPT ![i].pc = "ok"]
    /\ last' = Response("POST /players/addxp 001", reqs[i].name, 200, "")
    /\ UNCHANGED <<env, globalDoc, quests, enemies, inventory, equipment, battles, rootPlayers,
                   clock>>

NextRace ==
    \/ /\ reqs = <<>>
       /\ \E h \in Headers, n \in RawNames, l \in RawNums, x \in RawNums :
              PutPlayersName001(h, n, l, x)
    \/ \E h \in Headers, n \in RawNames, x \in RawNums : AddxpBegin(h, n, x)
    \/ \E i \in 1..Len(reqs) : AddxpStepEnsure(i)
    \/ \E i \in 1..Len(reqs) : AddxpStepRead(i)
    \/ \E i \in 1..Len(reqs) : AddxpStepWrite(i)

SpecRace == Init /\ [][NextRace]_vars

RECURSIVE SumDeltas(_, _)
SumDeltas(rs, name) ==
    IF rs = <<>> THEN 0
    ELSE (IF Head(rs).name = name THEN Head(rs).delta ELSE 0) + SumDeltas(Tail(rs), name)

\* C4: once all the POST /players/addxp requests of a burst for one player
\* have answered ok, the stored xp is the xp the burst started from plus the
\* sum of their deltas.
C4_NoLostUpdate ==
    \A i \in 1..Len(reqs) :
        (\A j \in 1..Len(reqs) : reqs[j].name = reqs[i].name => reqs[j].pc = "ok")
        => players[reqs[i].name].xp = reqs[i].base + SumDeltas(reqs, reqs[i].name)

-----------------------------------------------------------------------------
(* index.js, second variant: the global record *)

\* PATCH /global {current?, goal?, stage?}
\*   if (req.body?.[k] !== undefined) payload[k] = toInt(req.body[k]);
PatchPayload(rawCurrent, rawGoal, rawStage) ==
    LET body == [current |-> rawCurrent, goal |-> rawGoal, stage |-> rawStage]
    IN  [k \in {f \in DOMAIN body : body[f] # Undefined} |-> toInt(body[k], 0)]

PatchGlobal(key, rawCurrent, rawGoal, rawStage) ==
    /\ IF requireAdmin(key) # 0
       THEN /\ last' = Response("PATCH /global", <<>>, 403, "forbidden")
            /\ UNCHANGED globalDoc
       ELSE /\ globalDoc' = SetMerge(globalDoc, "global",
                                PatchPayload(rawCurrent, rawGoal, rawStage))
            /\ last' = Response("PATCH /global", <<>>, 200, "")
    /\ UNCHANGED <<env, players, quests, enemies, inventory, equipment, battles, rootPlayers,
                   clock, reqs>>

-----------------------------------------------------------------------------
(* part_002, first variant (lines 1-115): POST /world/progress/increment      *)
(* { playerId, name, amount }.  The handler runs db.runTransaction; the       *)
(* transaction function awaits tx.get twice, and other requests may run       *)
(* between its steps.  Writes made through tx are buffered in the             *)
(* transaction and reach the store together when it commits.                  *)

\* a body value that Number() turns into NaN
Text == [t |-> "text", h |-> 0]

\* const inc = Number(amount ?? 1);
IncOf(rawAmount) == IF rawAmount = Undefined THEN Num(J(1)) ELSE rawAmount

\* the request arrives and is validated
IncrementBegin(rawPlayerId, rawName, rawAmount) ==
    /\ Len(reqs) < MaxReq
    /\ IF rawPlayerId = <<>> \/ rawName = <<>>
       THEN /\ last' = Response("POST /world/progress/increment", rawPlayerId, 400,
                                "Faltan 'playerId' y/o 'name'")
            /\ UNCHANGED reqs
       ELSE IF IncOf(rawAmount).t # "number"
       THEN /\ last' = Response("POST /world/progress/increment", rawPlayerId, 400,
                                "'amount' debe ser numérico")
            /\ UNCHANGED reqs
       ELSE /\ reqs' = Append(reqs, [pc |-> "getGlobal", playerId |-> rawPlayerId,
                                     name |-> rawName, inc |-> IncOf(rawAmount).h,
                                     writes |-> <<>>])
            /\ UNCHANGED last
    /\ UNCHANGED <<env, store, clock>>

\*   const gSnap = await tx.get(gRef);
\*   if (!gSnap.exists) tx.set(gRef, { current: 0, goal: 10000, stage: 0 }, { merge: true });
\*   tx.update(gRef, { current: FieldValue.increment(inc) });
IncrementTxGetGlobal(i) ==
    /\ reqs[i].pc = "getGlobal"
    /\ reqs' = [reqs EXCEPT ![i].pc = "getPlayer",
                            ![i].writes = (IF Exists(globalDoc, "global") THEN <<>>
                                           ELSE <<"set global">>)
                                          \o <<"increment global">>]
    /\ UNCHANGED <<env, store, clock, last>>

\* what the commit of a transaction's buffered writes makes of the global record
RECURSIVE CommitGlobal(_, _, _)
CommitGlobal(col, writes, inc) ==
    IF writes = <<>> THEN col
    ELSE CommitGlobal(
             CASE Head(writes) = "set global" ->
                      SetMerge(col, "global", [current |-> 0, goal |-> J(10000), stage |-> 0])
               [] Head(writes) = "increment global" ->
                      Increment(col, "global", "current", inc)
               [] OTHER -> col,
             Tail(writes), inc)

\* and of the roster
RECURSIVE CommitPlayers(_, _, _)
CommitPlayers(col, writes, r) ==
    IF writes = <<>> THEN col
    ELSE CommitPlayers(
             CASE Head(writes) = "set player" ->
                      SetMerge(col, r.playerId, [name |-> r.name, level |-> J(1)])
               [] Head(writes) = "increment player" ->
                      Increment(col, r.playerId, "level", r.inc)
               [] OTHER -> col,
             Tail(writes), r)

\*   const pSnap = await tx.get(pRef);
\* Transaction.get of @google-cloud/firestore throws "Firestore transactions
\* require all reads to be executed before all writes." when the transaction
\* has buffered a write; the transaction is rolled back, runTransaction
\* rejects, and the handler's catch answers 500.  Otherwise the player's write
\* is buffered, the transaction commits and the handler answers ok.
IncrementTxGetPlayer(i) ==
    LET r == reqs[i]
        writes == r.writes \o (IF Exists(players, r.playerId)
                               THEN <<"increment player">>
                               ELSE <<"set player">>)
    IN  /\ r.pc = "getPlayer"
        /\ IF r.writes # <<>>
           THEN /\ reqs' = [reqs EXCEPT ![i].pc = "failed", ![i].writes = <<>>]
                /\ last' = Response("POST /world/progress/increment", r.playerId, 500,
                                    "Error actualizando progreso")
                /\ UNCHANGED <<globalDoc, players>>
           ELSE /\ globalDoc' = CommitGlobal(globalDoc, writes, r.inc)
                /\ players' = CommitPlayers(players, writes, r)
                /\ reqs' = [reqs EXCEPT ![i].pc = "ok", ![i].writes = <<>>]
                /\ last' = Response("POST /world/progress/increment", r.playerId, 200, "")
        /\ UNCHANGED <<env, quests, enemies, inventory, equipment, battles, rootPlayers, clock>>

PlayerIds == {<<>>, <<"p">>, <<"q">>}

IncNames == {<<>>, <<"a">>}

Amounts == {Undefined, Text, Num(J(1)), Num(0 - J(1))}

NextIncrement ==
    \/ \E h \in Headers, c \in {Undefined, Num(J(1))} :
           PatchGlobal(h, c, Undefined, Undefined)
    \/ \E p \in PlayerIds, n \in IncNames, a \in Amounts : IncrementBegin(p, n, a)
    \/ \E i \in 1..Len(reqs) : IncrementTxGetGlobal(i)
    \/ \E i \in 1..Len(reqs) : IncrementTxGetPlayer(i)

SpecIncrement == Init /\ [][NextIncrement]_vars

\* global.current as GET /world would show it, 0 when absent
GlobalCurrent(col) ==
    IF Exists(col, "global") /\ "current" \in DOMAIN col["global"]
    THEN col["global"].current
    ELSE 0

-----------------------------------------------------------------------------
(* index.js, second variant: reading and deleting a player, the quest list *)

\* GET /players/:name
GetPlayersName(rawName) ==
    LET name == trim(rawName)
    IN  /\ last' = IF name = <<>>
                   THEN Response("GET /players/:name", rawName, 400, "name_required")
                   ELSE IF ~Exists(players, name)
                   THEN Response("GET /players/:name", rawName, 404, "not_found")
                   ELSE Response("GET /players/:name", rawName, 200, "")
        /\ UNCHANGED <<env, store, clock, reqs>>

\* a DELETE /players/:name that answers ok and deletes nothing
DeletePlayersNameKeeps(key, rawName) ==
    LET name == trim(rawName)
    IN  /\ last' = IF requireAdmin(key) # 0
                   THEN Response("DELETE /players/:name", rawName, 403, "forbidden")
                   ELSE IF name = <<>>
                   THEN Response("DELETE /players/:name", rawName, 400, "name_required")
                   ELSE Response("DELETE /players/:name", rawName, 200, "")
        /\ UNCHANGED <<env, store, clock, reqs>>

\* DELETE /players/:name (admin)
DeletePlayersName(key, rawName) ==
    LET name == trim(rawName)
    IN  /\ IF requireAdmin(key) # 0
           THEN /\ last' = Response("DELETE /players/:name", rawName, 403, "forbidden")
                /\ UNCHANGED players
           ELSE IF name = <<>>
           THEN /\ last' = Response("DELETE /players/:name", rawName, 400, "name_required")
                /\ UNCHANGED players
           ELSE /\ players' = Delete(players, name)
                /\ last' = Response("DELETE /players/:name", rawName, 200, "")
        /\ UNCHANGED exceptPlayers

\* timestamps and generated ids handed out in one run
MaxClock == 2

\* the id col.add() generates: fresh, and unlike the ids clients send
AutoId(c) == [i \in 1..c |-> "#"]

open == <<"o", "p", "e", "n">>

\* String(req.body?.status || "open").trim()
StatusOf(rawStatus) == trim(IF rawStatus = <<>> THEN open ELSE rawStatus)

\* a response that carries an entity
Entity(op, name, body) ==
    [op |-> op, name |-> name, status |-> 200, err |-> "", body |-> body]

\* POST /quests {title, status} (admin)
PostQuests(key, rawTitle, rawStatus) ==
    LET title == trim(rawTitle)
        status == StatusOf(rawStatus)
        id == AutoId(clock + 1)
        data == [title |-> title, status |-> status, createdAt |-> clock + 1]
    IN  /\ IF requireAdmin(key) # 0
           THEN /\ last' = Response("POST /quests", rawTitle, 403, "forbidden")
                /\ UNCHANGED <<quests, clock>>
           ELSE IF title = <<>>
           THEN /\ last' = Response("POST /quests", rawTitle, 400, "title_required")
                /\ UNCHANGED <<quests, clock>>
           ELSE /\ clock < MaxClock
                /\ clock' = clock + 1
                /\ quests' = Set(quests, id, data)
                /\ last' = Entity("POST /quests", rawTitle,
                                  Merge([id |-> id], Set(quests, id, data)[id]))
        /\ UNCHANGED <<env, globalDoc, players, enemies, inventory, equipment, battles, rootPlayers, reqs>>

\* DELETE /quests/:id (admin)
DeleteQuestsId(key, rawId) ==
    LET id == trim(rawId)
    IN  /\ IF requireAdmin(key) # 0
           THEN /\ last' = Response("DELETE /quests/:id", rawId, 403, "forbidden")
                /\ UNCHANGED quests
           ELSE IF id = <<>>
           THEN /\ last' = Response("DELETE /quests/:id", rawId, 400, "id_required")
                /\ UNCHANGED quests
           ELSE /\ quests' = Delete(quests, id)
                /\ last' = Response("DELETE /quests/:id", rawId, 200, "")
        /\ UNCHANGED <<env, globalDoc, players, enemies, inventory, equipment, battles, rootPlayers,
                       clock, reqs>>

-----------------------------------------------------------------------------
(* part_003 *)

\* const ADMIN_SECRET = process.env.ADMIN_SECRET || "admin";
ADMIN_SECRET_003 == IF env = <<>> THEN <<"a", "d", "m", "i", "n">> ELSE env

requireAdmin003(got) ==
    IF ADMIN_SECRET_003 = <<>> \/ got = ADMIN_SECRET_003 THEN 0 ELSE 403

\* PUT /players/:name (admin)
PutPlayersName003(got, rawName, rawLevel, rawXp) ==
    LET name == trim(rawName)
        level == toInt(rawLevel, J(1))
        xp == toInt(rawXp, J(0))
    IN  /\ IF requireAdmin003(got) # 0
           THEN /\ last' = Response("PUT /players/:name 003", rawName, 403, "forbidden")
                /\ UNCHANGED players
           ELSE IF name = <<>>
           THEN /\ last' = Response("PUT /players/:name 003", rawName, 400, "name_required")
                /\ UNCHANGED players
           ELSE /\ players' = SetMerge(players, name,
                                  [name |-> name, level |-> level, xp |-> xp])
                /\ last' = Response("PUT /players/:name 003", rawName, 200, "")
        /\ UNCHANGED exceptPlayers

\* DELETE /players/:name (admin)
DeletePlayersName003(got, rawName) ==
    LET name == trim(rawName)
    IN  /\ IF requireAdmin003(got) # 0
           THEN /\ last' = Response("DELETE /players/:name 003", rawName, 403, "forbidden")
                /\ UNCHANGED players
           ELSE IF name = <<>>
           THEN /\ last' = Response("DELETE /players/:name 003", rawName, 400, "name_required")
                /\ UNCHANGED players
           ELSE /\ players' = Delete(players, name)
                /\ last' = Response("DELETE /players/:name 003", rawName, 200, "")
        /\ UNCHANGED exceptPlayers

-----------------------------------------------------------------------------
(* The admin-guarded routes and the reading of a player *)

AdminHeaders == {<<>>, <<"s">>, <<"a", "d", "m", "i", "n">>}

AdminNames == {<<>>, <<"a">>, <<" ", "b">>}

AdminXps == {Undefined, Num(J(1))}

Titles == {<<" ">>, <<"t", " ">>}

QuestIds == {<<>>, AutoId(1), <<"q">>}

NextAdmin ==
    \/ \E n \in AdminNames, x \in AdminXps : PutPlayersName(n, Undefined, x)
    \/ \E n \in AdminNames : GetPlayersName(n)
    \/ \E k \in AdminHeaders, n \in AdminNames : DeletePlayersName(k, n)
    \/ \E k \in AdminHeaders, c \in AdminXps : PatchGlobal(k, c, Undefined, Undefined)
    \/ \E k \in AdminHeaders, t \in Titles : PostQuests(k, t, <<>>)
    \/ \E k \in AdminHeaders, i \in QuestIds : DeleteQuestsId(k, i)
    \/ \E k \in AdminHeaders, n \in AdminNames, x \in AdminXps :
           PutPlayersName003(k, n, Undefined, x)
    \/ \E k \in AdminHeaders, n \in AdminNames : DeletePlayersName003(k, n)

SpecAdmin == Init /\ [][NextAdmin]_vars

Forbidden ==
    /\ last'.status = 403
    /\ last'.err = "forbidden"
    /\ store' = store

\* C6: when a non-empty admin secret is configured, a request to an
\* admin-guarded mutation route whose x-admin-secret header is absent or
\* differs from the secret is answered 403 forbidden and leaves the document
\* store unchanged (requireAdmin of index.js:52 and of part_003:42).
C6_WrongSecretIsForbidden ==
    [][\A k \in AdminHeaders :
          /\ (ADMIN_SECRET # <<>> /\ k # ADMIN_SECRET) =>
                /\ \A n \in AdminNames : DeletePlayersName(k, n) => Forbidden
                /\ \A c \in AdminXps : PatchGlobal(k, c, Undefined, Undefined) => Forbidden
                /\ \A t \in Titles : PostQuests(k, t, <<>>) => Forbidden
                /\ \A i \in QuestIds : DeleteQuestsId(k, i) => Forbidden
          /\ (ADMIN_SECRET_003 # <<>> /\ k # ADMIN_SECRET_003) =>
                /\ \A n \in AdminNames, x \in AdminXps :
                       PutPlayersName003(k, n, Undefined, x) => Forbidden
                /\ \A n \in AdminNames : DeletePlayersName003(k, n) => Forbidden]_vars

\* a DELETE with a wrong secret was refused while the player it names is stored
C6_Witness ==
    /\ env # <<>>
    /\ last.op = "DELETE /players/:name"
    /\ last.status = 403
    /\ Exists(players, trim(last.name))

\* C7: GET /players/:name answers 404 not_found for every (non-blank) name
\* that has no stored document, and creates none; and a DELETE /players/:name
\* that succeeds leaves no document for the name, so that GET answers 404 for
\* it as long as no write recreates the player.
C7_MissingPlayerIsNotFound ==
    [][/\ \A n \in AdminNames :
             (GetPlayersName(n) /\ trim(n) # <<>> /\ ~Exists(players, trim(n)))
             => /\ last'.status = 404
                /\ last'.err = "not_found"
                /\ store' = store
       /\ \A k \in AdminHeaders, n \in AdminNames :
             (DeletePlayersName(k, n) /\ last'.status = 200)
             => ~Exists(players', trim(n))]_vars

\* GET answered 404 for a name that needed trimming and has no document, while
\* another player is stored
C7_Witness ==
    /\ last.op = "GET /players/:name"
    /\ last.status = 404
    /\ last.name = <<" ", "b">>
    /\ ~Exists(players, <<"b">>)
    /\ Exists(players, <<"a">>)

-----------------------------------------------------------------------------
(* part_001: the quest list *)

\* col.orderBy("createdAt", "desc").get(): the documents that have the field
\* createdAt, latest first (a query ordered by a field leaves out the
\* documents that do not have the field)
RECURSIVE OrderByCreatedAtDesc(_, _)
OrderByCreatedAtDesc(col, ids) ==
    LET having == {i \in ids : "createdAt" \in DOMAIN col[i]}
    IN  IF having = {} THEN <<>>
        ELSE LET first == CHOOSE i \in having :
                              \A j \in having : col[j].createdAt <= col[i].createdAt
             IN  <<first>> \o OrderByCreatedAtDesc(col, having \ {first})

\* qs.docs.map(d => ({ id: d.id, ...(d.data() || {}) }))
Items(col, order) == [k \in 1..Len(order) |-> Merge([id |-> order[k]], col[order[k]])]

\* GET /quests
GetQuests ==
    /\ last' = Entity("GET /quests", <<>>,
                      Items(quests, OrderByCreatedAtDesc(quests, DOMAIN quests)))
    /\ UNCHANGED <<env, store, clock, reqs>>

\* POST /quests {id?, title, status?} (req. clave)
PostQuests001(header, rawId, rawTitle, rawStatus) ==
    LET title == trim(rawTitle)
        status == StatusOf(rawStatus)
        id == trim(rawId)
        ref == IF id # <<>> THEN id ELSE AutoId(clock + 1)
        written == IF id # <<>>
                   THEN SetMerge(quests, ref, [title |-> title, status |-> status,
                                               updatedAt |-> clock + 1])
                   ELSE Set(quests, ref, [title |-> title, status |-> status,
                                          createdAt |-> clock + 1])
    IN  /\ IF requireSecret(header) # 0
           THEN /\ last' = Response("POST /quests 001", rawId,
                                    requireSecret(header), requireSecretError(header))
                /\ UNCHANGED <<quests, clock>>
           ELSE IF title = <<>>
           THEN /\ last' = Response("POST /quests 001", rawId, 400, "title_required")
                /\ UNCHANGED <<quests, clock>>
           ELSE /\ clock < MaxClock
                /\ clock' = clock + 1
                /\ quests' = written
                /\ last' = Entity("POST /quests 001", rawId,
                                  Merge([id |-> ref], written[ref]))
        /\ UNCHANGED <<env, globalDoc, players, enemies, inventory, equipment, battles, rootPlayers, reqs>>

\* DELETE /quests/:id (req. clave)
DeleteQuestsId001(header, rawId) ==
    LET id == trim(rawId)
    IN  /\ IF requireSecret(header) # 0
           THEN /\ last' = Response("DELETE /quests/:id 001", rawId,
                                    requireSecret(header), requireSecretError(header))
                /\ UNCHANGED quests
           ELSE IF id = <<>>
           THEN /\ last' = Response("DELETE /quests/:id 001", rawId, 400, "id_required")
                /\ UNCHANGED quests
           ELSE /\ quests' = Delete(quests, id)
                /\ last' = Response("DELETE /quests/:id 001", rawId, 200, "")
        /\ UNCHANGED <<env, globalDoc, players, enemies, inventory, equipment, battles, rootPlayers,
                       clock, reqs>>

Statuses == {<<>>, <<"x", " ">>}

BodyIds == {<<>>, <<"q", " ">>}

NextQuests ==
    \/ GetQuests
    \/ \E h \in Headers, i \in BodyIds, t \in Titles, st \in Statuses :
           PostQuests001(h, i, t, st)
    \/ \E h \in Headers, i \in QuestIds : DeleteQuestsId001(h, i)
    \/ \E k \in Headers, t \in Titles, st \in Statuses : PostQuests(k, t, st)

SpecQuests == Init /\ [][NextQuests]_vars

\* C9: a successful POST /quests with a non-empty title, with the id supplied
\* in the body or generated, returns the stored quest (its id, the trimmed
\* title, the status defaulting to "open"), and every GET /quests contains a
\* quest with the id of every quest so created and not deleted.
C9_CreatedQuestIsListed ==
    [][/\ \A h \in Headers, i \in BodyIds, t \in Titles, st \in Statuses :
             (PostQuests001(h, i, t, st) /\ last'.status = 200)
             => /\ last'.body.id \in DOMAIN quests'
                /\ trim(i) # <<>> => last'.body.id = trim(i)
                /\ last'.body.title = trim(t)
                /\ last'.body.status = (IF st = <<>> THEN open ELSE trim(st))
                /\ quests'[last'.body.id].title = last'.body.title
                /\ quests'[last'.body.id].status = last'.body.status
       /\ GetQuests =>
             \A id \in DOMAIN quests :
                 \E k \in 1..Len(last'.body) : last'.body[k].id = id]_vars

-----------------------------------------------------------------------------
(* Store calls that fail.  A store call rejects when the store is unreachable *)
(* or refuses the request (fails), and add() rejects data that holds an       *)
(* undefined field value.                                                     *)

\* GET /global (index.js:94): the catch answers 500 failed_get_global
GetGlobal(fails) ==
    LET d == IF Exists(globalDoc, "global") THEN globalDoc["global"] ELSE [f \in {} |-> 0]
    IN  /\ last' = IF fails
                   THEN Response("GET /global", <<>>, 500, "failed_get_global")
                   ELSE Entity("GET /global", <<>>,
                               [current |-> toInt(Field(d, "current"), J(0)),
                                goal |-> toInt(Field(d, "goal"), J(10000)),
                                stage |-> toInt(Field(d, "stage"), J(0))])
        /\ UNCHANGED <<env, store, clock, reqs>>

\* what becomes of a request whose async handler throws outside any try/catch:
\* the rejected promise is not handled by the router and the request gets no
\* response (status 0), or the router's default error handler answers a bare
\* 500 with no error code
Unhandled == {0, 500}

\* part_000, GET /players: no try/catch
GetPlayers000(fails) ==
    /\ IF fails
       THEN \E status \in Unhandled : last' = Response("GET /players 000", <<>>, status, "")
       ELSE last' = Entity("GET /players 000", <<>>, rootPlayers)
    /\ UNCHANGED <<env, store, clock, reqs>>

\* part_000, POST /players {name, level}: no validation, no try/catch
PostPlayers000(rawName, rawLevel, fails) ==
    LET id == AutoId(clock + 1)
    IN  /\ IF fails \/ rawLevel = Undefined
           THEN /\ \E status \in Unhandled :
                       last' = Response("POST /players 000", rawName, status, "")
                /\ UNCHANGED <<rootPlayers, clock>>
           ELSE /\ clock < MaxClock
                /\ clock' = clock + 1
                /\ rootPlayers' = Set(rootPlayers, id, [name |-> rawName, level |-> rawLevel.h])
                /\ last' = Entity("POST /players 000", rawName,
                                  [id |-> id, name |-> rawName, level |-> rawLevel.h])
        /\ UNCHANGED <<env, globalDoc, players, quests, enemies, inventory, equipment,
                       battles, reqs>>

NextFail ==
    \/ \E k \in Headers, c \in RawNums : PatchGlobal(k, c, Undefined, Undefined)
    \/ \E f \in BOOLEAN : GetGlobal(f)
    \/ \E f \in BOOLEAN : GetPlayers000(f)
    \/ \E n \in RawNames, l \in RawNums, f \in BOOLEAN : PostPlayers000(n, l, f)

SpecFail == Init /\ [][NextFail]_vars

\* C10: every handler that calls the document store answers a failed store
\* call with a 500 response that carries an error code; no request whose store
\* call fails is left without a response.
C10_FailedStoreCallIsAnswered500 ==
    [][/\ GetGlobal(TRUE) => (last'.status = 500 /\ last'.err # "")
       /\ GetPlayers000(TRUE) => (last'.status = 500 /\ last'.err # "")
       /\ \A n \in RawNames, l \in RawNums :
             PostPlayers000(n, l, TRUE) => (last'.status = 500 /\ last'.err # "")]_vars

-----------------------------------------------------------------------------
(* index.js, fourth variant: the enemy pack *)

\* const ADMIN_SECRET = process.env.ADMIN_SECRET || "cambia-esto";
CambiaEsto == <<"c", "a", "m", "b", "i", "a", "-", "e", "s", "t", "o">>

ADMIN_SECRET_B == IF env = <<>> THEN CambiaEsto ELSE env

requireAdminB(header) ==
    IF ADMIN_SECRET_B = <<>> \/ header # ADMIN_SECRET_B THEN 403 ELSE 0

\* the pack of POST /admin/enemies/seed; a chance is given in hundredths
pack ==
    [i \in {<<"slime">>, <<"goblin">>, <<"wolf">>, <<"orc">>, <<"dragon">>} |->
        CASE i = <<"slime">> ->
                 [name |-> "Slime", power |-> J(1), hp |-> J(20), xpReward |-> J(5),
                  loot |-> <<[item |-> "Gelatina", type |-> "material",
                              rarity |-> "common", chance |-> 50]>>]
          [] i = <<"goblin">> ->
                 [name |-> "Goblin", power |-> J(8), hp |-> J(60), xpReward |-> J(20),
                  loot |-> <<[item |-> "Daga mohosas", type |-> "weapon",
                              rarity |-> "common", atk |-> J(3), chance |-> 25]>>]
          [] i = <<"wolf">> ->
                 [name |-> "Lobo", power |-> J(15), hp |-> J(90), xpReward |-> J(35),
                  loot |-> <<[item |-> "Piel de lobo", type |-> "armor",
                              rarity |-> "uncommon", def |-> J(4), chance |-> 20]>>]
          [] i = <<"orc">> ->
                 [name |-> "Orco", power |-> J(30), hp |-> J(160), xpReward |-> J(120),
                  loot |-> <<[item |-> "Hacha orca", type |-> "weapon",
                              rarity |-> "rare", atk |-> J(9), chance |-> 15]>>]
          [] i = <<"dragon">> ->
                 [name |-> "Dragón", power |-> J(60), hp |-> J(300), xpReward |-> J(500),
                  loot |-> <<[item |-> "Colmillo de dragón", type |-> "weapon",
                              rarity |-> "rare", atk |-> J(15), chance |-> 20],
                             [item |-> "Escama de dragón", type |-> "armor",
                              rarity |-> "epic", def |-> J(20), chance |-> 10]>>]]

\* POST /admin/enemies/seed (admin): one batch of merge-writes
PostAdminEnemiesSeed(header) ==
    /\ IF requireAdminB(header) # 0
       THEN /\ last' = Response("POST /admin/enemies/seed", <<>>, 403, "forbidden")
            /\ UNCHANGED enemies
       ELSE /\ enemies' = [i \in DOMAIN enemies \cup DOMAIN pack |->
                              IF i \in DOMAIN pack
                              THEN (IF Exists(enemies, i)
                                    THEN Merge(enemies[i], pack[i])
                                    ELSE pack[i])
                              ELSE enemies[i]]
            /\ last' = Response("POST /admin/enemies/seed", <<>>, 200, "")
    /\ UNCHANGED <<env, globalDoc, players, quests, inventory, equipment, battles,
                   rootPlayers, clock, reqs>>

-----------------------------------------------------------------------------
(* part_004: combat with drops, equipment *)

\* inventory documents created in one run
MaxItems == 2

\* levels explored
MaxLevel == 2

XP_PER_LEVEL == J(100)

clamp(v, min, max) == Max(min, Min(max, v))

\* function applyLevelUp(p): while (xp >= XP_PER_LEVEL) { xp -= XP_PER_LEVEL; level += 1; }
RECURSIVE LevelUpLoop(_)
LevelUpLoop(p) ==
    IF p.xp >= XP_PER_LEVEL
    THEN LevelUpLoop([level |-> p.level + J(1), xp |-> p.xp - XP_PER_LEVEL, changed |-> TRUE])
    ELSE p

\* applyLevelUp with a single threshold step in place of the loop
applyLevelUpOnce(p) ==
    LET level == clamp(toInt(Field(p, "level"), J(1)), J(1), J(9999))
        xp == toInt(Field(p, "xp"), J(0))
    IN  IF xp >= XP_PER_LEVEL
        THEN [level |-> level + J(1), xp |-> xp - XP_PER_LEVEL, changed |-> TRUE]
        ELSE [level |-> level, xp |-> xp, changed |-> FALSE]

applyLevelUp(p) ==
    LevelUpLoop([level |-> clamp(toInt(Field(p, "level"), J(1)), J(1), J(9999)),
                 xp |-> toInt(Field(p, "xp"), J(0)),
                 changed |-> FALSE])

\* snap.data() || {}
DataOrEmpty(col, id) == IF Exists(col, id) THEN col[id] ELSE [f \in {} |-> 0]

\* l.rarity || "common"
RarityOf(l) == IF "rarity" \in DOMAIN l /\ l.rarity # "" THEN l.rarity ELSE "common"

\* Math.random() < chance  can come out as roll
RollPossible(l, roll) == IF roll THEN l.chance > 0 ELSE l.chance < 100

\* the loot loop: one invRef.add per entry whose roll succeeds
RECURSIVE AddDrops(_, _, _, _, _)
AddDrops(inv, name, loot, rolls, c) ==
    IF loot = <<>> THEN [inv |-> inv, clock |-> c]
    ELSE IF Head(rolls)
    THEN AddDrops(Set(inv, <<name, AutoId(c + 1)>>,
                      [name |-> Head(loot).item,
                       type |-> Head(loot).type,
                       rarity |-> RarityOf(Head(loot)),
                       atk |-> toInt(Field(Head(loot), "atk"), J(0)),
                       def |-> toInt(Field(Head(loot), "def"), J(0)),
                       qty |-> J(1),
                       createdAt |-> c + 1]),
                  name, Tail(loot), Tail(rolls), c + 1)
    ELSE AddDrops(inv, name, Tail(loot), Tail(rolls), c)

\* a loot loop that reports every entry of the loot, dropped or not
RECURSIVE DropsOfAllLoot(_, _, _)
DropsOfAllLoot(loot, rolls, c) ==
    IF loot = <<>> THEN <<>>
    ELSE <<[id |-> AutoId(c + 1), item |-> Head(loot).item, type |-> Head(loot).type,
            rarity |-> RarityOf(Head(loot)),
            atk |-> toInt(Field(Head(loot), "atk"), J(0)),
            def |-> toInt(Field(Head(loot), "def"), J(0))]>>
         \o DropsOfAllLoot(Tail(loot), Tail(rolls), c + 1)

\* the drops of the response: one drops.push per entry whose roll succeeds
RECURSIVE DropsOf(_, _, _)
DropsOf(loot, rolls, c) ==
    IF loot = <<>> THEN <<>>
    ELSE IF Head(rolls)
    THEN <<[id |-> AutoId(c + 1), item |-> Head(loot).item, type |-> Head(loot).type,
            rarity |-> RarityOf(Head(loot)),
            atk |-> toInt(Field(Head(loot), "atk"), J(0)),
            def |-> toInt(Field(Head(loot), "def"), J(0))]>>
         \o DropsOf(Tail(loot), Tail(rolls), c + 1)
    ELSE DropsOf(Tail(loot), Tail(rolls), c)

\* drops that list the whole loot of the enemy
DropsAll(loot, rolls, c) == DropsOfAllLoot(loot, rolls, c)

\* const drops = [] ... drops.push(...)
Drops(loot, rolls, c) == DropsOf(loot, rolls, c)

LootOf(enemy) == IF "loot" \in DOMAIN enemy THEN enemy.loot ELSE <<>>

\* POST /combat/attack { name, enemyId }.  winProb is clamped to 0.1..0.9, so
\* a win and a defeat are both possible whatever the powers.
CombatAttack(rawName, rawEnemyId, win, rolls) ==
    LET name == rawName
        enemyId == rawEnemyId
        ensured == IF Exists(players, name) THEN players
                   ELSE SetMerge(players, name, [name |-> name, level |-> J(1), xp |-> J(0)])
        player == ensured[name]
        enemy == enemies[enemyId]
        weapon == DataOrEmpty(equipment, <<name, "weapon">>)
        armor == DataOrEmpty(equipment, <<name, "armor">>)
        atkBonus == toInt(Field(weapon, "atk"), J(0))
        defBonus == toInt(Field(armor, "def"), J(0))
        playerPower == toInt(Field(player, "level"), J(1)) * 10 + atkBonus
                       + FloorDiv(defBonus, 2)
        enemyPower == toInt(Field(enemy, "power"), J(5))
        xpDelta == IF win THEN toInt(Field(enemy, "xpReward"), J(10)) ELSE 0
        dropped == AddDrops(inventory, name, LootOf(enemy), rolls, clock)
        newXP == toInt(Field(player, "xp"), J(0)) + xpDelta
        up == applyLevelUp(IF "level" \in DOMAIN player
                           THEN [level |-> player.level, xp |-> newXP]
                           ELSE [xp |-> newXP])
    IN  /\ IF name = <<>> \/ enemyId = <<>>
           THEN /\ last' = Response("POST /combat/attack", rawName, 400,
                                    "name_and_enemy_required")
                /\ rolls = <<>>
                /\ UNCHANGED <<players, inventory, clock>>
           ELSE IF ~Exists(enemies, enemyId)
           THEN /\ players' = ensured
                /\ last' = Response("POST /combat/attack", rawName, 404, "enemy_not_found")
                /\ rolls = <<>>
                /\ UNCHANGED <<inventory, clock>>
           ELSE IF ~win
           THEN /\ players' = ensured
                /\ rolls = <<>>
                /\ last' = Entity("POST /combat/attack", rawName,
                                  [win |-> FALSE, playerPower |-> playerPower,
                                   enemyPower |-> enemyPower, xpGained |-> 0,
                                   drops |-> <<>>])
                /\ UNCHANGED <<inventory, clock>>
           ELSE /\ Len(rolls) = Len(LootOf(enemy))
                /\ \A k \in 1..Len(rolls) : RollPossible(LootOf(enemy)[k], rolls[k])
                /\ dropped.clock <= MaxItems
                /\ up.level <= J(MaxLevel)
                /\ inventory' = dropped.inv
                /\ clock' = dropped.clock
                /\ players' = SetMerge(ensured, name, [xp |-> up.xp, level |-> up.level])
                /\ last' = Entity("POST /combat/attack", rawName,
                                  [win |-> TRUE, playerPower |-> playerPower,
                                   enemyPower |-> enemyPower, xpGained |-> xpDelta,
                                   drops |-> Drops(LootOf(enemy), rolls, clock)])
        /\ UNCHANGED <<env, globalDoc, quests, enemies, equipment, battles, rootPlayers, reqs>>

\* POST /players/:name/equipment/equip { slot, itemId }
Equip(rawName, slot, itemId) ==
    LET name == rawName
        item == inventory[<<name, itemId>>]
    IN  /\ IF slot = "" \/ itemId = <<>>
           THEN /\ last' = Response("POST /equipment/equip", rawName, 400,
                                    "slot_and_itemId_required")
                /\ UNCHANGED <<inventory, equipment>>
           ELSE IF slot \notin {"weapon", "armor"}
           THEN /\ last' = Response("POST /equipment/equip", rawName, 400, "invalid_slot")
                /\ UNCHANGED <<inventory, equipment>>
           ELSE IF ~Exists(inventory, <<name, itemId>>)
           THEN /\ last' = Response("POST /equipment/equip", rawName, 404, "item_not_found")
                /\ UNCHANGED <<inventory, equipment>>
           ELSE IF item.type # slot
           THEN /\ last' = Response("POST /equipment/equip", rawName, 400,
                                    IF slot = "weapon" THEN "item_not_weapon"
                                    ELSE "item_not_armor")
                /\ UNCHANGED <<inventory, equipment>>
           ELSE /\ equipment' = Set(equipment, <<name, slot>>,
                                    [id |-> itemId,
                                     name |-> item.name,
                                     atk |-> toInt(Field(item, "atk"), J(0)),
                                     def |-> toInt(Field(item, "def"), J(0)),
                                     rarity |-> RarityOf(item),
                                     equippedAt |-> clock])
                /\ inventory' = Delete(inventory, <<name, itemId>>)
                /\ last' = Entity("POST /equipment/equip", rawName,
                                  [weapon |-> Exists(equipment', <<name, "weapon">>),
                                   armor |-> Exists(equipment', <<name, "armor">>)])
        /\ UNCHANGED <<env, globalDoc, players, quests, enemies, battles, rootPlayers,
                       clock, reqs>>

ItemHeaders == {<<"s">>, CambiaEsto}

CombatEnemyIds == {<<>>, <<"orc">>, <<"nope">>}

Rolls == {<<>>, <<FALSE>>, <<TRUE>>}

Slots == {"", "weapon", "armor", "ring"}

ItemIds == {<<>>, AutoId(1), AutoId(2)}

\* quest titles that are no title
BlankTitles == {<<>>, <<" ">>}

NextItems ==
    \/ \E h \in ItemHeaders : PostAdminEnemiesSeed(h)
    \/ \E n \in RawNames, e \in CombatEnemyIds, w \in BOOLEAN, r \in Rolls :
           CombatAttack(n, e, w, r)
    \/ \E n \in RawNames, sl \in Slots, i \in ItemIds : Equip(n, sl, i)
    \/ \E k \in Headers, t \in BlankTitles : PostQuests(k, t, <<>>)

SpecItems == Init /\ [][NextItems]_vars

\* C8: a request that lacks a required field (an empty or whitespace-only
\* player name, no quest title, no enemyId, no itemId or no slot) is answered
\* 400 with an error code and writes nothing to the document store.
C8_MissingFieldIs400 ==
    [][/\ \A n \in RawNames, e \in CombatEnemyIds, w \in BOOLEAN, r \in Rolls :
             (CombatAttack(n, e, w, r) /\ (trim(n) = <<>> \/ e = <<>>))
             => (last'.status = 400 /\ last'.err # "" /\ store' = store)
       /\ \A n \in RawNames, sl \in Slots, i \in ItemIds :
             (Equip(n, sl, i) /\ (sl = "" \/ i = <<>>))
             => (last'.status = 400 /\ last'.err # "" /\ store' = store)
       /\ \A k \in Headers, t \in BlankTitles :
             (PostQuests(k, t, <<>>) /\ requireAdmin(k) = 0 /\ trim(t) = <<>>)
             => (last'.status = 400 /\ last'.err # "" /\ store' = store)]_vars

-----------------------------------------------------------------------------
(* GET /leaderboard (index.js:195, part_004:198) *)

\* the order of strings in the store: by their characters' codes
Alphabet ==
    <<" ", "#", "-", "a", "b", "c", "d", "e", "f", "g", "h", "i", "j", "k", "l", "m",
      "n", "o", "p", "q", "r", "s", "t", "u", "v", "w", "x", "y", "z">>

Code(ch) == CHOOSE k \in 1..Len(Alphabet) : Alphabet[k] = ch

RECURSIVE LexLess(_, _)
LexLess(s, t) ==
    IF t = <<>> THEN FALSE
    ELSE IF s = <<>> THEN TRUE
    ELSE IF Head(s) = Head(t) THEN LexLess(Tail(s), Tail(t))
    ELSE Code(Head(s)) < Code(Head(t))

\* an ordering by xp that lists the smallest xp first
RECURSIVE OrderByXpAsc(_, _)
OrderByXpAsc(col, ids) ==
    LET having == {i \in ids : "xp" \in DOMAIN col[i]}
    IN  IF having = {} THEN <<>>
        ELSE LET first == CHOOSE i \in having : \A j \in having \ {i} :
                              \/ col[j].xp > col[i].xp
                              \/ col[j].xp = col[i].xp /\ LexLess(i, j)
             IN  <<first>> \o OrderByXpAsc(col, having \ {first})

\* col.orderBy("xp", "desc"): the documents that have the field xp, largest
\* first; documents with the same xp come by document id, also descending
RECURSIVE OrderByXpDesc(_, _)
OrderByXpDesc(col, ids) ==
    LET having == {i \in ids : "xp" \in DOMAIN col[i]}
    IN  IF having = {} THEN <<>>
        ELSE LET first == CHOOSE i \in having : \A j \in having \ {i} :
                              \/ col[j].xp < col[i].xp
                              \/ col[j].xp = col[i].xp /\ LexLess(j, i)
             IN  <<first>> \o OrderByXpDesc(col, having \ {first})

\* .limit(n) on the documents in order
Limit(order, n) == SubSeq(order, 1, Min(Len(order), n \div 2))

\* const limit = Math.min(Math.max(toInt(req.query.limit, 10), 1), 100);
LeaderboardLimit(rawLimit) == Min(Max(toInt(rawLimit, J(10)), J(1)), J(100))

\* GET /leaderboard?limit  (index.js)
GetLeaderboard(rawLimit) ==
    /\ last' = Entity("GET /leaderboard", <<>>,
                      Items(players, Limit(OrderByXpDesc(players, DOMAIN players),
                                           LeaderboardLimit(rawLimit))))
    /\ UNCHANGED <<env, store, clock, reqs>>

\* GET /leaderboard?limit  (part_004)
GetLeaderboard004(rawLimit) ==
    /\ last' = Entity("GET /leaderboard 004", <<>>,
                      Items(players, Limit(OrderByXpDesc(players, DOMAIN players),
                                           clamp(toInt(rawLimit, J(10)), J(1), J(100)))))
    /\ UNCHANGED <<env, store, clock, reqs>>

Limits == {Undefined, Text, Num(0 - J(1)), Num(0), Num(3), Num(J(2)), Num(J(500))}

BoardNames == {<<"a">>, <<"b">>, <<"c">>}

BoardXps == {Undefined, Num(J(1)), Num(0 - J(1))}

NextBoard ==
    \/ \E n \in BoardNames, x \in BoardXps : PutPlayersName(n, Undefined, x)
    \/ \E k \in AdminHeaders, n \in BoardNames : DeletePlayersName(k, n)
    \/ \E l \in Limits : GetLeaderboard(l)
    \/ \E l \in Limits : GetLeaderboard004(l)

SpecBoard == Init /\ [][NextBoard]_vars

\* the number of players the claim allows for ?limit=n
ClaimedLimit(n) ==
    IF n.t # "number" THEN 10
    ELSE IF Trunc(n.h) < J(1) THEN 1
    ELSE IF Trunc(n.h) > J(100) THEN 100
    ELSE Trunc(n.h) \div 2

BoardProperty(l) ==
    LET b == last'.body
        returned == {b[k].id : k \in 1..Len(b)}
    IN  /\ Len(b) <= ClaimedLimit(l)
        /\ \A k \in 1..Len(b) : b[k].id \in DOMAIN players /\ b[k].xp = players[b[k].id].xp
        /\ \A i, j \in 1..Len(b) : i < j => b[i].xp >= b[j].xp
        /\ \A id \in DOMAIN players \ returned :
               "xp" \in DOMAIN players[id] =>
                   \A k \in 1..Len(b) : players[id].xp <= b[k].xp

\* C11: GET /leaderboard?limit=n returns at most clamp(trunc(n), 1, 100)
\* players (10 when n is absent or no finite number), in non-increasing order
\* of xp, and no player left out has a larger xp than a player returned.
C11_LeaderboardIsTopN ==
    [][\A l \in Limits :
          /\ LeaderboardLimit(l) = J(ClaimedLimit(l))
          /\ clamp(toInt(l, J(10)), J(1), J(100)) = J(ClaimedLimit(l))
          /\ GetLeaderboard(l) => BoardProperty(l)
          /\ GetLeaderboard004(l) => BoardProperty(l)]_vars

\* a leaderboard of two players, the larger xp first, while a third player
\* with less xp is stored and left out
C11_Witness ==
    /\ last.op \in {"GET /leaderboard", "GET /leaderboard 004"}
    /\ Len(last.body) = 2
    /\ last.body[1].xp > last.body[2].xp
    /\ \E id \in DOMAIN players :
           /\ id \notin {last.body[1].id, last.body[2].id}
           /\ "xp" \in DOMAIN players[id]
           /\ players[id].xp < last.body[2].xp

-----------------------------------------------------------------------------
(* GET /players?limit&startAfter (index.js:125, part_002:204) and a client    *)
(* that pages through the roster                                              *)

\* col.orderBy("name"): the documents that have the field name, smallest
\* first; documents with the same name come by document id
RECURSIVE OrderByName(_, _)
OrderByName(col, ids) ==
    LET having == {i \in ids : "name" \in DOMAIN col[i]}
    IN  IF having = {} THEN <<>>
        ELSE LET first == CHOOSE i \in having : \A j \in having \ {i} :
                              \/ LexLess(col[i].name, col[j].name)
                              \/ col[j].name = col[i].name /\ LexLess(i, j)
             IN  <<first>> \o OrderByName(col, having \ {first})

\* q.startAfter(value) on a query ordered by name: the documents whose name
\* comes after value
StartAfter(col, ids, value) ==
    {i \in ids : "name" \in DOMAIN col[i] /\ LexLess(value, col[i].name)}

\* items[items.length - 1].name || items[items.length - 1].id, or null (here
\* the empty string) for an empty page
NextPageToken(items) ==
    IF items = <<>> THEN <<>>
    ELSE IF "name" \in DOMAIN items[Len(items)] /\ items[Len(items)].name # <<>>
    THEN items[Len(items)].name
    ELSE items[Len(items)].id

\* what GET /players answers
GetPlayersBody(rawLimit, startAfter) ==
    LET limit == Min(Max(toInt(rawLimit, J(25)), J(1)), J(100))
        ids == IF startAfter # <<>> THEN StartAfter(players, DOMAIN players, startAfter)
               ELSE DOMAIN players
        items == Items(players, Limit(OrderByName(players, ids), limit))
    IN  [items |-> items, nextPageToken |-> NextPageToken(items)]

\* the client asks for the next page, with startAfter set to the previous
\* nextPageToken, until it gets an empty page; reqs holds the ids of the
\* documents it has received
GetNextPage(rawLimit) ==
    LET startAfter == IF last.op = "none" THEN <<>> ELSE last.body.nextPageToken
        page == GetPlayersBody(rawLimit, startAfter)
    IN  /\ IF last.op = "none" THEN TRUE ELSE last.body.items # <<>>
        /\ last' = Entity("GET /players", startAfter, page)
        /\ reqs' = reqs \o [k \in 1..Len(page.items) |-> page.items[k].id]
        /\ UNCHANGED <<env, store, clock>>

\* rosters the store may hold: written by the handlers (document id = name),
\* and documents keyed by a player id that carry a name
\* (world_progress/global/world_progress/{playerId} -> { name, level })
PageIds == {<<"a">>, <<"b">>, <<"p">>}

PageNames == {<<"a">>, <<"b">>}

Rosters ==
    UNION {[ids -> [name : PageNames, level : {J(1)}]] : ids \in SUBSET PageIds}

InitPages ==
    /\ env \in Envs
    /\ globalDoc = NoDocs
    /\ players \in Rosters
    /\ quests = NoDocs
    /\ enemies = NoDocs
    /\ inventory = NoDocs
    /\ equipment = NoDocs
    /\ battles = NoDocs
    /\ rootPlayers = NoDocs
    /\ clock = 0
    /\ reqs = <<>>
    /\ last = Response("none", <<>>, 0, "")

PageLimits == {Undefined, Num(J(1)), Num(J(2))}

NextPages == \E l \in PageLimits : GetNextPage(l)

SpecPages == InitPages /\ [][NextPages]_vars

\* C12: with no concurrent writes, calling GET /players with startAfter set to
\* the previous nextPageToken until an empty page is returned yields every
\* stored player document exactly once, also when two documents carry the
\* same name or a document's id differs from its name.
C12_PagesYieldEveryPlayerOnce ==
    (last.op = "GET /players" /\ last.body.items = <<>>)
    => /\ Len(reqs) = Cardinality(DOMAIN players)
       /\ \A id \in DOMAIN players : \E k \in 1..Len(reqs) : reqs[k] = id

-----------------------------------------------------------------------------
(* applyLevelUp on its own (part_004): the argument is drawn, the function is
   applied to it once *)

\* the xp of the argument ranges over 0, 0.5, 1, ... MaxLevelUpXp
MaxLevelUpXp == 250

\* levels at both ends of the clamp, and one that is no integer
LevelUpLevels == {J(1), J(2), J(1) + 1, J(9998), J(9999)}

LevelUpArgs == [level : LevelUpLevels, xp : 0..J(MaxLevelUpXp)]

InitLevelUp ==
    /\ env = <<>>
    /\ globalDoc = NoDocs
    /\ players = NoDocs
    /\ quests = NoDocs
    /\ enemies = NoDocs
    /\ inventory = NoDocs
    /\ equipment = NoDocs
    /\ battles = NoDocs
    /\ rootPlayers = NoDocs
    /\ clock = 0
    /\ reqs \in LevelUpArgs
    /\ last = Response("none", <<>>, 0, "")

\* applyLevelUp(p) for the argument p drawn
ApplyLevelUp ==
    /\ last.op = "none"
    /\ last' = Entity("applyLevelUp", <<>>, applyLevelUp(reqs))
    /\ UNCHANGED <<env, store, clock, reqs>>

NextLevelUp == ApplyLevelUp

SpecLevelUp == InitLevelUp /\ [][NextLevelUp]_vars

\* what C13 says of the result r for the argument p
LevelUpClaim(p, r) ==
    /\ r.level = p.level + J(p.xp \div XP_PER_LEVEL)
    /\ r.xp = p.xp % XP_PER_LEVEL
    /\ J(100) * r.level + J(1) * r.xp = J(100) * p.level + J(1) * p.xp
    /\ r.xp >= J(0) /\ r.xp <= J(99)
    /\ r.changed = (p.xp >= J(100))

\* level in 1..9999
LevelInRange(p) == IsInteger(p.level) /\ p.level >= J(1) /\ p.level <= J(9999)

-----------------------------------------------------------------------------
(* part_004: POST /combat/attack requests in flight, interleaved at their
   awaits *)

\* 100 * level + xp of a player document
TotalExperience(p) == 100 * p.level + p.xp

\* the total experience of a player when a burst of attacks by it starts (kept
\* with each request of the burst, for the statement of the claim only); a
\* player the burst creates starts at level 1 with xp 0
BaseTotal(name) ==
    IF \E i \in 1..Len(reqs) : reqs[i].name = name
    THEN reqs[CHOOSE i \in 1..Len(reqs) : reqs[i].name = name].base
    ELSE IF Exists(players, name) /\ {"xp", "level"} \subseteq DOMAIN players[name]
    THEN TotalExperience(players[name])
    ELSE TotalExperience([level |-> J(1), xp |-> J(0)])

\* the request arrives:
\*   if (!name || !enemyId) return res.status(400)...
CombatBegin(rawName, rawEnemyId) ==
    /\ Len(reqs) < MaxReq
    /\ IF rawName = <<>> \/ rawEnemyId = <<>>
       THEN /\ last' = Response("POST /combat/attack", rawName, 400,
                                "name_and_enemy_required")
            /\ UNCHANGED reqs
       ELSE /\ reqs' = Append(reqs, [pc |-> "get", name |-> rawName,
                                     enemyId |-> rawEnemyId, player |-> NoDocs,
                                     win |-> FALSE, xpGained |-> 0,
                                     base |-> BaseTotal(rawName)])
            /\ UNCHANGED last
    /\ UNCHANGED <<env, store, clock>>

\*   const playerSnap = await playerRef.get();
CombatStepGet(i) ==
    /\ reqs[i].pc = "get"
    /\ reqs' = [reqs EXCEPT ![i].pc = IF Exists(players, reqs[i].name)
                                      THEN "read" ELSE "create"]
    /\ UNCHANGED <<env, store, clock, last>>

\*   if (!playerSnap.exists) await playerRef.set({ name, level: 1, xp: 0 }, { merge: true });
CombatStepCreate(i) ==
    /\ reqs[i].pc = "create"
    /\ players' = SetMerge(players, reqs[i].name,
                           [name |-> reqs[i].name, level |-> J(1), xp |-> J(0)])
    /\ reqs' = [reqs EXCEPT ![i].pc = "read"]
    /\ UNCHANGED <<env, globalDoc, quests, enemies, inventory, equipment, battles,
                   rootPlayers, clock, last>>

\*   const player = (await playerRef.get()).data();
\* (the document exists: nothing here deletes a player)
CombatStepRead(i) ==
    /\ reqs[i].pc = "read"
    /\ reqs' = [reqs EXCEPT ![i].pc = "fight", ![i].player = players[reqs[i].name]]
    /\ UNCHANGED <<env, store, clock, last>>

\* the rest of the handler, from the enemy lookup to the answer: the reads of
\* the enemy and of the equipment, which nothing here writes meanwhile, the
\* drops and playerRef.set({ xp, level }, { merge: true })
CombatStepFight(i, win, rolls) ==
    LET name == reqs[i].name
        enemyId == reqs[i].enemyId
        player == reqs[i].player
        enemy == enemies[enemyId]
        weapon == DataOrEmpty(equipment, <<name, "weapon">>)
        armor == DataOrEmpty(equipment, <<name, "armor">>)
        atkBonus == toInt(Field(weapon, "atk"), J(0))
        defBonus == toInt(Field(armor, "def"), J(0))
        playerPower == toInt(Field(player, "level"), J(1)) * 10 + atkBonus
                       + FloorDiv(defBonus, 2)
        enemyPower == toInt(Field(enemy, "power"), J(5))
        xpDelta == IF win THEN toInt(Field(enemy, "xpReward"), J(10)) ELSE 0
        dropped == AddDrops(inventory, name, LootOf(enemy), rolls, clock)
        newXP == toInt(Field(player, "xp"), J(0)) + xpDelta
        up == applyLevelUp(IF "level" \in DOMAIN player
                           THEN [level |-> player.level, xp |-> newXP]
                           ELSE [xp |-> newXP])
    IN  /\ reqs[i].pc = "fight"
        /\ IF ~Exists(enemies, enemyId)
           THEN /\ rolls = <<>> /\ ~win
                /\ reqs' = [reqs EXCEPT ![i].pc = "failed"]
                /\ last' = Response("POST /combat/attack", name, 404, "enemy_not_found")
                /\ UNCHANGED <<players, inventory, clock>>
           ELSE IF ~win
           THEN /\ rolls = <<>>
                /\ reqs' = [reqs EXCEPT ![i].pc = "done"]
                /\ last' = Entity("POST /combat/attack", name,
                                  [win |-> FALSE, playerPower |-> playerPower,
                                   enemyPower |-> enemyPower, xpGained |-> 0,
                                   drops |-> <<>>])
                /\ UNCHANGED <<players, inventory, clock>>
           ELSE /\ Len(rolls) = Len(LootOf(enemy))
                /\ \A k \in 1..Len(rolls) : RollPossible(LootOf(enemy)[k], rolls[k])
                /\ dropped.clock <= MaxItems
                /\ inventory' = dropped.inv
                /\ clock' = dropped.clock
                /\ players' = SetMerge(players, name, [xp |-> up.xp, level |-> up.level])
                /\ reqs' = [reqs EXCEPT ![i].pc = "done", ![i].win = TRUE,
                                        ![i].xpGained = xpDelta]
                /\ last' = Entity("POST /combat/attack", name,
                                  [win |-> TRUE, playerPower |-> playerPower,
                                   enemyPower |-> enemyPower, xpGained |-> xpDelta,
                                   drops |-> Drops(LootOf(enemy), rolls, clock)])
        /\ UNCHANGED <<env, globalDoc, quests, enemies, equipment, battles, rootPlayers>>

RaceNames == {<<>>, <<"a">>}

RaceEnemyIds == {<<"goblin">>, <<"nope">>}

NextCombat ==
    \/ /\ reqs = <<>>
       /\ \E h \in ItemHeaders : PostAdminEnemiesSeed(h)
    \/ \E n \in RaceNames, e \in RaceEnemyIds : CombatBegin(n, e)
    \/ \E i \in 1..Len(reqs) : CombatStepGet(i)
    \/ \E i \in 1..Len(reqs) : CombatStepCreate(i)
    \/ \E i \in 1..Len(reqs) : CombatStepRead(i)
    \/ \E i \in 1..Len(reqs), w \in BOOLEAN, r \in Rolls : CombatStepFight(i, w, r)

SpecCombat == Init /\ [][NextCombat]_vars

RECURSIVE SumXpGained(_, _)
SumXpGained(rs, name) ==
    IF rs = <<>> THEN 0
    ELSE (IF Head(rs).name = name THEN Head(rs).xpGained ELSE 0)
         + SumXpGained(Tail(rs), name)

\* C14: when two POST /combat/attack requests by the same player run
\* concurrently and both are won, after both have answered the player's total
\* experience 100 * level + xp has grown by the sum of the two xpGained values.
C14_ConcurrentWinsAllCount ==
    \A i, j \in 1..Len(reqs) :
        (/\ i # j /\ reqs[i].name = reqs[j].name
         /\ reqs[i].pc = "done" /\ reqs[i].win
         /\ reqs[j].pc = "done" /\ reqs[j].win)
        => TotalExperience(players[reqs[i].name])
             = reqs[i].base + SumXpGained(reqs, reqs[i].name)

-----------------------------------------------------------------------------
(* part_004: POST /players/:name/inventory/use requests in flight, interleaved
   at their awaits *)

\* an enemy catalog with a potion among the loot (type: potion | weapon |
\* armor | misc); the catalog is data of the store, no route of part_004
\* writes it
Spawns ==
    (<<"imp">> :> [name |-> "Imp", power |-> J(1), xpReward |-> J(10),
                   loot |-> <<[item |-> "Elixir", type |-> "potion", chance |-> 50]>>])

InitPotion ==
    /\ env \in Envs
    /\ globalDoc = NoDocs
    /\ players = NoDocs
    /\ quests = NoDocs
    /\ enemies = Spawns
    /\ inventory = NoDocs
    /\ equipment = NoDocs
    /\ battles = NoDocs
    /\ rootPlayers = NoDocs
    /\ clock = 0
    /\ reqs = <<>>
    /\ last = Response("none", <<>>, 0, "")

\* the request arrives:
\*   if (!itemId) return res.status(400).json({ error: "itemId_required" });
UseBegin(rawName, itemId) ==
    /\ Len(reqs) < MaxReq
    /\ IF itemId = <<>>
       THEN /\ last' = Response("POST /inventory/use", rawName, 400, "itemId_required")
            /\ UNCHANGED reqs
       ELSE /\ reqs' = Append(reqs, [pc |-> "item", name |-> rawName, itemId |-> itemId,
                                     p |-> NoDocs, base |-> BaseTotal(rawName)])
            /\ UNCHANGED last
    /\ UNCHANGED <<env, store, clock>>

\*   const item = (await itemRef.get()).data();
\*   if (!item) return res.status(404).json({ error: "item_not_found" });
\*   if (item.type === "potion") { ... } else { effect = { note: "item_no_consumible" }; }
UseStepItem(i) ==
    LET key == <<reqs[i].name, reqs[i].itemId>>
    IN  /\ reqs[i].pc = "item"
        /\ IF ~Exists(inventory, key)
           THEN /\ reqs' = [reqs EXCEPT ![i].pc = "failed"]
                /\ last' = Response("POST /inventory/use", reqs[i].name, 404,
                                    "item_not_found")
           ELSE IF inventory[key].type = "potion"
           THEN /\ reqs' = [reqs EXCEPT ![i].pc = "player"]
                /\ UNCHANGED last
           ELSE /\ reqs' = [reqs EXCEPT ![i].pc = "done"]
                /\ last' = Entity("POST /inventory/use", reqs[i].name,
                                  [note |-> "item_no_consumible"])
        /\ UNCHANGED <<env, store, clock>>

\*   const p = (await playerRef.get()).data();
\* (the document exists: the combat that dropped the item has written it and
\* nothing here deletes a player)
UseStepPlayer(i) ==
    /\ reqs[i].pc = "player"
    /\ reqs' = [reqs EXCEPT ![i].pc = "write", ![i].p = players[reqs[i].name]]
    /\ UNCHANGED <<env, store, clock, last>>

\* const { level, xp } = applyLevelUp({ level: p.level, xp: toInt(p.xp, 0) + 20 })
UseLevelUp(p) ==
    LET newXP == toInt(Field(p, "xp"), J(0)) + J(20)
    IN  applyLevelUp(IF "level" \in DOMAIN p
                     THEN [level |-> p.level, xp |-> newXP]
                     ELSE [xp |-> newXP])

\*   await playerRef.set({ xp, level }, { merge: true });
UseStepWrite(i) ==
    /\ reqs[i].pc = "write"
    /\ players' = SetMerge(players, reqs[i].name,
                           [xp |-> UseLevelUp(reqs[i].p).xp,
                            level |-> UseLevelUp(reqs[i].p).level])
    /\ reqs' = [reqs EXCEPT ![i].pc = "delete"]
    /\ UNCHANGED <<env, globalDoc, quests, enemies, inventory, equipment, battles,
                   rootPlayers, clock, last>>

\*   await itemRef.delete();
\*   effect = { xpAdded: 20, newLevel: level, newXP: xp };   res.json({ ok: true, effect });
UseStepDelete(i) ==
    /\ reqs[i].pc = "delete"
    /\ inventory' = Delete(inventory, <<reqs[i].name, reqs[i].itemId>>)
    /\ reqs' = [reqs EXCEPT ![i].pc = "done"]
    /\ last' = Entity("POST /inventory/use", reqs[i].name,
                      [xpAdded |-> J(20), newLevel |-> UseLevelUp(reqs[i].p).level,
                       newXP |-> UseLevelUp(reqs[i].p).xp])
    /\ UNCHANGED <<env, globalDoc, players, quests, enemies, equipment, battles,
                   rootPlayers, clock>>

PotionNames == {<<"a">>}

PotionEnemyIds == {<<"imp">>}

PotionItemIds == {<<>>, AutoId(1)}

NextPotion ==
    \/ /\ reqs = <<>>
       /\ \E n \in PotionNames, e \in PotionEnemyIds, w \in BOOLEAN, r \in Rolls :
              CombatAttack(n, e, w, r)
    \/ \E n \in PotionNames, id \in PotionItemIds : UseBegin(n, id)
    \/ \E i \in 1..Len(reqs) : UseStepItem(i)
    \/ \E i \in 1..Len(reqs) : UseStepPlayer(i)
    \/ \E i \in 1..Len(reqs) : UseStepWrite(i)
    \/ \E i \in 1..Len(reqs) : UseStepDelete(i)

SpecPotion == InitPotion /\ [][NextPotion]_vars

\* C15: under any interleaving of concurrent POST /players/:name/inventory/use
\* requests naming the same potion itemId, the player's total experience
\* 100 * level + xp grows by at most 20 in total.
C15_PotionConsumedAtMostOnce ==
    (/\ reqs # <<>>
     /\ \A i \in 1..Len(reqs) : reqs[i].name = reqs[1].name /\ reqs[i].itemId = reqs[1].itemId
     /\ Exists(players, reqs[1].name))
    => TotalExperience(players[reqs[1].name]) <= reqs[1].base + J(20)

-----------------------------------------------------------------------------
(* part_004: equipment, equip and unequip *)

\* unequip that clears the slot and hands nothing back
UnequipStoreDrops(inv, eq, name, slot, c) ==
    [inventory |-> inv, equipment |-> Delete(eq, <<name, slot>>), clock |-> c]

\* what POST /players/:name/equipment/unequip does to the store for a valid
\* slot: the equipped piece, if any, goes back to the inventory under a new
\* id, then the slot's document is deleted
UnequipStore(inv, eq, name, slot, c) ==
    LET data == eq[<<name, slot>>]
    IN  [inventory |->
             IF Exists(eq, <<name, slot>>)
             THEN Set(inv, <<name, AutoId(c + 1)>>,
                      [name |-> data.name,
                       type |-> IF slot = "weapon" THEN "weapon" ELSE "armor",
                       atk |-> toInt(Field(data, "atk"), J(0)),
                       def |-> toInt(Field(data, "def"), J(0)),
                       rarity |-> RarityOf(data),
                       qty |-> J(1),
                       createdAt |-> c + 1])
             ELSE inv,
         equipment |-> Delete(eq, <<name, slot>>),
         clock |-> IF Exists(eq, <<name, slot>>) THEN c + 1 ELSE c]

\* POST /players/:name/equipment/unequip { slot }
Unequip(rawName, slot) ==
    LET name == rawName
        after == UnequipStore(inventory, equipment, name, slot, clock)
    IN  /\ IF slot \notin {"weapon", "armor"}
           THEN /\ last' = Response("POST /equipment/unequip", rawName, 400, "invalid_slot")
                /\ UNCHANGED <<inventory, equipment, clock>>
           ELSE /\ after.clock <= MaxItems
                /\ inventory' = after.inventory
                /\ equipment' = after.equipment
                /\ clock' = after.clock
                /\ last' = Response("POST /equipment/unequip", rawName, 200, "")
        /\ UNCHANGED <<env, globalDoc, players, quests, enemies, battles, rootPlayers, reqs>>

EquipNames == {<<"a">>}

EquipEnemyIds == {<<"orc">>, <<"wolf">>}

EquipSlots == {"weapon", "armor", "ring"}

EquipItemIds == {AutoId(1), AutoId(2)}

NextEquip ==
    \/ \E h \in ItemHeaders : PostAdminEnemiesSeed(h)
    \/ \E n \in EquipNames, e \in EquipEnemyIds, w \in BOOLEAN, r \in Rolls :
           CombatAttack(n, e, w, r)
    \/ \E n \in EquipNames, sl \in EquipSlots, i \in EquipItemIds : Equip(n, sl, i)
    \/ \E n \in EquipNames, sl \in EquipSlots : Unequip(n, sl)

\* the server runs with ADMIN_SECRET set
InitEquip == Init /\ env = <<"s">>

SpecEquip == InitEquip /\ [][NextEquip]_vars

\* the number of items a player holds: inventory documents plus occupied slots
ItemsHeld(inv, eq, name) ==
    Cardinality({k \in DOMAIN inv : k[1] = name})
    + Cardinality({k \in DOMAIN eq : k[1] = name})

\* C16: the number of items a player holds (inventory documents plus occupied
\* equipment slots) is the same before and after every successful equip and
\* every successful unequip, also when equipping into an occupied slot.
C16_EquipNeverDestroysAnItem ==
    [][\A n \in EquipNames :
          (/\ last'.op \in {"POST /equipment/equip", "POST /equipment/unequip"}
           /\ last'.status = 200 /\ last'.name = n)
          => ItemsHeld(inventory', equipment', n) = ItemsHeld(inventory, equipment, n)]_vars

\* C17: after equipping an inventory item into an empty slot and then
\* unequipping that slot, the slot is empty again and the inventory holds an
\* item with the same name, type, atk, def and rarity as the original, under a
\* new id.
C17_EquipThenUnequipIsRoundTrip ==
    [][\A n \in EquipNames, sl \in {"weapon", "armor"}, i \in EquipItemIds :
          (/\ Equip(n, sl, i)
           /\ last'.status = 200
           /\ ~Exists(equipment, <<n, sl>>))
          => LET item == inventory[<<n, i>>]
                 after == UnequipStore(inventory', equipment', n, sl, clock')
                 newId == <<n, AutoId(clock' + 1)>>
             IN  /\ ~Exists(after.equipment, <<n, sl>>)
                 /\ newId \notin DOMAIN inventory
                 /\ Exists(after.inventory, newId)
                 /\ after.inventory[newId].name = item.name
                 /\ after.inventory[newId].type = item.type
                 /\ after.inventory[newId].atk = item.atk
                 /\ after.inventory[newId].def = item.def
                 /\ after.inventory[newId].rarity = item.rarity]_vars

\* the orc's axe has been equipped and unequipped: it is back in the
\* inventory under the second id and the weapon slot is empty
C17_Witness ==
    /\ last = Response("POST /equipment/unequip", <<"a">>, 200, "")
    /\ clock = 2
    /\ ~Exists(equipment, <<<<"a">>, "weapon">>)
    /\ ~Exists(inventory, <<<<"a">>, AutoId(1)>>)
    /\ Exists(inventory, <<<<"a">>, AutoId(2)>>)
    /\ inventory[<<<<"a">>, AutoId(2)>>].name = "Hacha orca"
    /\ inventory[<<<<"a">>, AutoId(2)>>].type = "weapon"
    /\ inventory[<<<<"a">>, AutoId(2)>>].atk = J(9)

-----------------------------------------------------------------------------
(* attacks on an enemy that does not exist *)

\* C18: an attack that names an enemy that does not exist is answered 404
\* enemy_not_found and leaves the document store unchanged; in particular it
\* creates or modifies no player document.
C18_UnknownEnemyChangesNothing ==
    [][(last'.status = 404 /\ last'.err = "enemy_not_found") => UNCHANGED store]_vars

-----------------------------------------------------------------------------
(* POST /combat/attack: what a defeat and a win leave behind *)

\* C19: a lost POST /combat/attack by an existing player changes nothing of
\* that player (xp, level, inventory and equipment are the same after the
\* request as before) and the response reports xpGained 0 and an empty drops
\* list; on a won attack the number of inventory items added equals the
\* length of drops in the response.
C19_DefeatChangesNothing ==
    [][\A n \in EquipNames, e \in EquipEnemyIds, w \in BOOLEAN, r \in Rolls :
          (CombatAttack(n, e, w, r) /\ last'.status = 200)
          => /\ (~last'.body.win /\ Exists(players, n))
                => /\ players'[n] = players[n]
                   /\ inventory' = inventory
                   /\ equipment' = equipment
                   /\ last'.body.xpGained = 0
                   /\ last'.body.drops = <<>>
             /\ last'.body.win
                => /\ DOMAIN inventory \subseteq DOMAIN inventory'
                   /\ Cardinality(DOMAIN inventory' \ DOMAIN inventory)
                        = Len(last'.body.drops)]_vars

\* a player that has won before (xp above 0, an armor equipped) has lost an
\* attack
C19_Witness ==
    /\ last.op = "POST /combat/attack"
    /\ last.status = 200
    /\ ~last.body.win
    /\ last.body.drops = <<>>
    /\ Exists(players, <<"a">>)
    /\ players[<<"a">>].xp > 0
    /\ Exists(equipment, <<<<"a">>, "armor">>)

\* C20: a won battle never lowers the stored xp field by which GET /leaderboard
\* sorts: for every POST /combat/attack that is won (the statement names
\* POST /battle/attack too, which thresholds the same way), the player's stored
\* xp after the request is greater than or equal to the stored xp before it.
C20_WinNeverLowersStoredXp ==
    [][\A n \in EquipNames, e \in EquipEnemyIds, r \in Rolls :
          (/\ CombatAttack(n, e, TRUE, r)
           /\ last'.status = 200
           /\ Exists(players, n))
          => players'[n].xp >= players[n].xp]_vars

-----------------------------------------------------------------------------
(* part_006: battles against the demo enemies, with a history *)

\* battles recorded in one run
MaxBattles == 1

\* const ENEMIES = [ ... ]
ENEMIES ==
    [i \in {<<"slime">>, <<"goblin">>, <<"wolf">>, <<"knight">>, <<"lich">>, <<"dragon">>}
       |-> CASE i = <<"slime">> ->
                    [id |-> i, name |-> "Slime", power |-> J(8), xp |-> J(10), gold |-> J(2)]
             [] i = <<"goblin">> ->
                    [id |-> i, name |-> "Goblin", power |-> J(15), xp |-> J(16), gold |-> J(5)]
             [] i = <<"wolf">> ->
                    [id |-> i, name |-> "Lobo Alfa", power |-> J(22), xp |-> J(24), gold |-> J(8)]
             [] i = <<"knight">> ->
                    [id |-> i, name |-> "Caballero", power |-> J(35), xp |-> J(40), gold |-> J(15)]
             [] i = <<"lich">> ->
                    [id |-> i, name |-> "Lich", power |-> J(55), xp |-> J(65), gold |-> J(25)]
             [] i = <<"dragon">> ->
                    [id |-> i, name |-> "Dragón", power |-> J(85), xp |-> J(120), gold |-> J(60)]]

\* PUT /players/:name {level?, xp?, power?}
PutPlayersName006(rawName, rawLevel, rawXp, rawPower) ==
    LET name == trim(rawName)
        level == toInt(rawLevel, J(1))
        xp == toInt(rawXp, J(0))
        power == toInt(rawPower, J(10))
    IN  /\ IF name = <<>>
           THEN /\ last' = Response("PUT /players/:name 006", rawName, 400, "name_required")
                /\ UNCHANGED players
           ELSE /\ players' = SetMerge(players, name,
                                  [name |-> name, level |-> level, xp |-> xp,
                                   power |-> power])
                /\ last' = Response("PUT /players/:name 006", rawName, 200, "")
        /\ UNCHANGED exceptPlayers

\* const rnd = () => Math.floor(Math.random() * 6) - 2: Math.random() is in
\* [0, 1), so the floor is one of 0..5
rnd == {J(k) - J(2) : k \in 0..5}

\* a battle that a draw does not win
BattleWinStrict(playerRoll, enemyRoll) == playerRoll > enemyRoll

\* const win = playerRoll >= enemyRoll;
BattleWin(playerRoll, enemyRoll) == playerRoll >= enemyRoll

\* while (newXP >= 100) { newXP -= 100; newLevel += 1; }
RECURSIVE BattleLevelUp(_)
BattleLevelUp(p) ==
    IF p.xp >= J(100)
    THEN BattleLevelUp([level |-> p.level + J(1), xp |-> p.xp - J(100)])
    ELSE p

\* POST /battle/attack { name, enemyId }; pRnd and eRnd are the two values of
\* rnd() the request draws
BattleAttack(rawName, rawEnemyId, pRnd, eRnd) ==
    LET name == trim(rawName)
        enemyId == trim(rawEnemyId)
        enemy == ENEMIES[enemyId]
        ensured == IF Exists(players, name) THEN players
                   ELSE SetMerge(players, name,
                                 [name |-> name, level |-> J(1), xp |-> J(0),
                                  power |-> J(10)])
        player == ensured[name]
        playerPower == toInt(Field(player, "power"), J(10))
                       + toInt(Field(player, "level"), J(1)) * 5
                       + FloorDiv(toInt(Field(player, "xp"), J(0)), 20)
        playerRoll == playerPower + pRnd
        enemyRoll == enemy.power + eRnd
        win == BattleWin(playerRoll, enemyRoll)
        xpGain == IF win THEN enemy.xp ELSE 0
        up == BattleLevelUp([level |-> toInt(Field(player, "level"), J(1)),
                             xp |-> toInt(Field(player, "xp"), J(0)) + xpGain])
    IN  /\ IF name = <<>> \/ enemyId = <<>>
           THEN /\ last' = Response("POST /battle/attack", rawName, 400,
                                    "name_and_enemyId_required")
                /\ pRnd = 0 /\ eRnd = 0
                /\ UNCHANGED <<players, battles, clock>>
           ELSE IF enemyId \notin DOMAIN ENEMIES
           THEN /\ last' = Response("POST /battle/attack", rawName, 404, "enemy_not_found")
                /\ pRnd = 0 /\ eRnd = 0
                /\ UNCHANGED <<players, battles, clock>>
           ELSE /\ clock < MaxBattles
                /\ players' = IF win
                              THEN SetMerge(ensured, name, [xp |-> up.xp, level |-> up.level])
                              ELSE ensured
                /\ battles' = Set(battles, <<name, AutoId(clock + 1)>>,
                                  [enemyId |-> enemyId, enemyName |-> enemy.name,
                                   at |-> clock + 1, playerPower |-> playerPower,
                                   enemyPower |-> enemy.power, playerRoll |-> playerRoll,
                                   enemyRoll |-> enemyRoll, win |-> win, xpGain |-> xpGain])
                /\ clock' = clock + 1
                /\ last' = Entity("POST /battle/attack", rawName,
                                  [win |-> win, enemy |-> enemyId,
                                   player |-> [name |-> name, level |-> up.level,
                                               xp |-> up.xp, power |-> playerPower],
                                   xpGain |-> xpGain])
        /\ UNCHANGED <<env, globalDoc, quests, enemies, inventory, equipment, rootPlayers, reqs>>

BattleNames == {<<"a">>}

\* powers that put a level 1 player at 2, 3, 12, 13 and 15 against the slime's 8
BattlePowers == {Undefined, Num(0 - J(3)), Num(0 - J(2)), Num(J(7)), Num(J(8))}

BattleEnemyIds == {<<>>, <<"slime">>, <<"nope">>}

\* the server runs without ADMIN_SECRET
InitBattle == Init /\ env = <<>>

NextBattle ==
    \/ /\ battles = NoDocs
       /\ \E n \in BattleNames, pw \in BattlePowers :
              PutPlayersName006(n, Undefined, Undefined, pw)
    \/ \E n \in BattleNames, e \in BattleEnemyIds, pr \in rnd, er \in rnd :
           BattleAttack(n, e, pr, er)

SpecBattle == InitBattle /\ [][NextBattle]_vars

\* C21: in POST /battle/attack each side's random modifier is an integer in
\* -2..3 and the player wins exactly when playerRoll >= enemyRoll; hence for
\* every roll the player wins whenever playerPower >= enemy power + 5 and loses
\* whenever playerPower <= enemy power - 6, and every attack on a known enemy,
\* won or lost, adds exactly one record to the player's battles history.
C21_BattleRolls ==
    [][(last'.op = "POST /battle/attack" /\ last'.status = 200)
       => LET added == DOMAIN battles' \ DOMAIN battles
          IN  /\ Cardinality(added) = 1
              /\ DOMAIN battles \subseteq DOMAIN battles'
              /\ \A k \in DOMAIN battles : battles'[k] = battles[k]
              /\ \A k \in added :
                    LET b == battles'[k]
                    IN  /\ k[1] = last'.body.player.name
                        /\ IsInteger(b.playerRoll - b.playerPower)
                        /\ b.playerRoll - b.playerPower >= 0 - J(2)
                        /\ b.playerRoll - b.playerPower <= J(3)
                        /\ IsInteger(b.enemyRoll - b.enemyPower)
                        /\ b.enemyRoll - b.enemyPower >= 0 - J(2)
                        /\ b.enemyRoll - b.enemyPower <= J(3)
                        /\ b.enemyPower = ENEMIES[b.enemyId].power
                        /\ b.win = (b.playerRoll >= b.enemyRoll)
                        /\ last'.body.win = b.win
                        /\ (b.playerPower >= b.enemyPower + J(5) => b.win)
                        /\ (b.playerPower <= b.enemyPower - J(6) => ~b.win)]_vars

\* a player of power 13 has beaten the slime (power 8) with the worst rolls,
\* 11 against 11, and the history holds the record
C21_Witness ==
    /\ last.op = "POST /battle/attack"
    /\ last.status = 200
    /\ last.body.win
    /\ \E k \in DOMAIN battles :
          /\ battles[k].playerPower = J(13)
          /\ battles[k].enemyPower = J(8)
          /\ battles[k].playerRoll = J(11)
          /\ battles[k].enemyRoll = J(11)
          /\ battles[k].win

-----------------------------------------------------------------------------
(* part_005: the win chance of POST /battle on its own: level and power are
   drawn, the chance is computed for them once *)

\* levels and powers range over 1..MaxChance
MaxChance == 8

\* a chance whose ratio leaves out the + 1 of the denominator
baseWithoutOne(lvl, power) ==
    [num |-> 35 * (lvl + power) + 100 * lvl, den |-> 100 * (lvl + power)]

\* const base = 0.35 + (lvl / (lvl + power + 1)), as the fraction num / den
base(lvl, power) ==
    [num |-> 35 * (lvl + power + J(1)) + 100 * lvl, den |-> 100 * (lvl + power + J(1))]

InitChance ==
    /\ env = <<>>
    /\ globalDoc = NoDocs
    /\ players = NoDocs
    /\ quests = NoDocs
    /\ enemies = NoDocs
    /\ inventory = NoDocs
    /\ equipment = NoDocs
    /\ battles = NoDocs
    /\ rootPlayers = NoDocs
    /\ clock = 0
    /\ reqs \in [lvl : {J(k) : k \in 1..MaxChance}, power : {J(k) : k \in 1..MaxChance}]
    /\ last = Response("none", <<>>, 0, "")

\* const base = ...; const roll = Math.random(); const win = roll < base;
\* for the level and the power drawn: the chance, and whether a roll can win
\* and whether a roll can lose
ComputeChance ==
    /\ last.op = "none"
    /\ last' = Entity("base", <<>>,
                      [chance |-> base(reqs.lvl, reqs.power),
                       canWin |-> WinPossible(reqs.lvl, reqs.power),
                       canLose |-> LosePossible(reqs.lvl, reqs.power)])
    /\ UNCHANGED <<env, store, clock, reqs>>

NextChance == ComputeChance

SpecChance == InitChance /\ [][NextChance]_vars

\* the chance lies between 0.35 and 0.85 and neither outcome is certain
ChanceInRange(b) ==
    /\ 100 * b.chance.num >= 35 * b.chance.den
    /\ 100 * b.chance.num <= 85 * b.chance.den
    /\ b.canWin
    /\ b.canLose

-----------------------------------------------------------------------------
(* part_001: the routes behind requireSecret *)

\* no secret, a blank one, a secret
SecretEnvs == {<<>>, <<" ">>, <<"s">>}

InitSecret ==
    /\ env \in SecretEnvs
    /\ globalDoc = NoDocs
    /\ players = NoDocs
    /\ quests = NoDocs
    /\ enemies = NoDocs
    /\ inventory = NoDocs
    /\ equipment = NoDocs
    /\ battles = NoDocs
    /\ rootPlayers = NoDocs
    /\ clock = 0
    /\ reqs = <<>>
    /\ last = Response("none", <<>>, 0, "")

\* no header, the secret, the secret with a blank before it, another word
SecretHeaders == {<<>>, <<"s">>, <<" ", "s">>, <<"x">>}

SecretNames == {<<>>, <<"a">>}

SecretXps == {Num(J(1))}

SecretQuestIds == {<<>>, <<"q">>}

SecretTitles == {<<"t">>}

\* a request with the header h to one of the routes behind requireSecret
Guarded(h) ==
    \/ \E n \in SecretNames, x \in SecretXps : PutPlayersName001(h, n, Undefined, x)
    \/ \E n \in SecretNames, x \in SecretXps : PostPlayersAddxp001(h, n, x)
    \/ \E i \in SecretQuestIds, t \in SecretTitles : PostQuests001(h, i, t, <<>>)
    \/ \E i \in SecretQuestIds : DeleteQuestsId001(h, i)

NextSecret ==
    \/ \E h \in SecretHeaders, n \in SecretNames, x \in SecretXps :
           PutPlayersName001(h, n, Undefined, x)
    \/ \E h \in SecretHeaders, n \in SecretNames, x \in SecretXps :
           PostPlayersAddxp001(h, n, x)
    \/ \E h \in SecretHeaders, i \in SecretQuestIds, t \in SecretTitles :
           PostQuests001(h, i, t, <<>>)
    \/ \E h \in SecretHeaders, i \in SecretQuestIds : DeleteQuestsId001(h, i)

SpecSecret == InitSecret /\ [][NextSecret]_vars

\* C23: with no ADMIN_SECRET configured every request to a guarded route is
\* answered 500 admin_secret_not_set whatever x-admin-secret header it
\* carries, and the document store does not change; with a secret configured
\* a request passes the guard exactly when its trimmed header equals the
\* secret.
C23_RequireSecretFailsClosed ==
    [][\A h \in SecretHeaders :
          Guarded(h)
          => /\ ADMIN_SECRET_001 = <<>>
                => /\ last'.status = 500
                   /\ last'.err = "admin_secret_not_set"
                   /\ UNCHANGED store
             /\ ADMIN_SECRET_001 # <<>>
                => /\ (last'.status \notin {403, 500}) <=> (trim(h) = ADMIN_SECRET_001)
                   /\ last'.status = 403 => (last'.err = "forbidden" /\ UNCHANGED store)]_vars

\* the secret is blank and a guarded request has been answered 500
C23_Witness ==
    /\ env = <<" ">>
    /\ last.op = "PUT /players/:name 001"
    /\ last.status = 500
    /\ last.err = "admin_secret_not_set"
    /\ players = NoDocs

=============================================================================
